---- MODULE Spec2Model ----
(***************************************************************************)
(* Verification model of the crawlers of Rust_Lang_GPT.                    *)
(*                                                                         *)
(* The repository holds several programs.  The variable prog says which    *)
(* one a behaviour runs:                                                   *)
(*   "download"  the download task of pdf_downloader/src/main.rs together  *)
(*               with download_pdf_with_validation and the file system;    *)
(*   "journal"   writer_task / write_results of web_crawler_pdf/main.rs;   *)
(*   "journal2"  IncrementalWriter of web_crawler_pdf/v2/main.rs;          *)
(*   "crawl"     the recursive crawl of ParallelPDFCrawler;                *)
(*   "bfs"       Crawler::crawl of web_crawler_pdf/main.rs;                *)
(*   "rec"       recursive_crawl of hydra_mt/examples/recursive_crawler;   *)
(*   "single"    crawl_and_download of ParallelPDFCrawler, one page;       *)
(*   "adv"       crawl of hydra_mt/examples/async_advanced;                *)
(*   "web"       main of webcrawler/main.rs.                               *)
(***************************************************************************)
EXTENDS Integers, Sequences, FiniteSets, TLC

VARIABLES
    prog,            \* which program of the repository runs
    \* ---- pdf_downloader: download task and file system
    files,           \* download_dir: path -> [data, alloc]
    pdf_queue,       \* the mpsc channel pdf_tx / pdf_rx
    pdf_closed,      \* every pdf_tx sender has been dropped
    dl,              \* the download task: position and locals
    counters,        \* PackedCounters: <<downloaded, failed, queued, cache_hits>>
    shutdown_signal, \* AtomicBool shutdown_signal
    resume,          \* CrawlerConfig.resume
    run,             \* number of the invocation of the program (1, 2, ...)
    seed_list,       \* the PDF URLs the crawl of one invocation hands to the channel
    committed,       \* history: the final names renamed into place so far
    \* ---- web_crawler_pdf (main.rs and v2): the journal writer
    results,         \* the in-memory CrawlResults: [metadata, pdfs]
    discovered_urls, \* discovered_urls (main.rs) / seen (v2)
    jdisk,           \* the output directory: [out, tmp], each a file or NoFile
    writer,          \* the writer: position and number of messages taken
    past,            \* history: every value results has held
    dup_seen,        \* history: a duplicate AddPdf / add_pdf was processed
    \* ---- the crawlers: pdf_downloader (recursive crawl), web_crawler_pdf
    \*      (Crawler::crawl) and hydra_mt/examples/recursive_crawler
    cfg,             \* the configuration and the site of this behaviour
    crawl_queue,     \* crawl_tx / crawl_rx; the VecDeque of Crawler::crawl;
                     \* the invocations of recursive_crawl not yet entered
    visited_urls,    \* visited_urls (identities) / visited / crawled_urls
    tasks,           \* the JoinSet of crawl tasks: slot -> position and locals
    main,            \* the loop of run_recursive_crawl_with_shutdown
    retry_tasks,     \* detached tasks that will re-send a failed CrawlTask
    pdf_senders,     \* detached tasks that wait to send a url to pdf_tx
    pdf_cache,       \* pdf_cache: url -> PdfKind
    limiters,        \* rate_limiters: host -> tokens available
    sent,            \* history: per host, the ages of the requests sent in the last second
    log,             \* history: what was dispatched and enqueued
    \* ---- hydra_mt/examples/async_advanced and webcrawler: the worker pools
    stats,           \* CrawlStats; num_pages_crawled, error_count, active_threads
    \* ---- functions and methods checked on their own
    fcall            \* the object they work on, the calls made and their results

dlVars == <<files, pdf_queue, pdf_closed, dl, counters, shutdown_signal, resume, run,
            seed_list, committed>>

jVars == <<results, discovered_urls, jdisk, writer, past, dup_seen>>

crVars == <<cfg, crawl_queue, visited_urls, tasks, main, retry_tasks, pdf_senders,
            pdf_cache, limiters, sent, log>>

vars == <<prog, fcall, stats, dlVars, jVars, crVars>>

----------------------------------------------------------------------------
(* Bounds of the model *)

\* most chunks a response body is delivered in
MaxChunks == 2
\* how often the same program is invoked on the same download_dir
MaxRuns == 2
\* most messages the journal writer takes / most calls made on the IncrementalWriter
MaxMsgs == 3
\* largest pages_crawled value a message carries
MaxPages == 1

----------------------------------------------------------------------------
(* Generic helpers *)

Max(a, b) == IF a >= b THEN a ELSE b
Min(a, b) == IF a <= b THEN a ELSE b

Last(s) == s[Len(s)]

\* value standing for Option::None
None == 0 - 1

----------------------------------------------------------------------------
(* URLs.  A URL is [host, path]; the path is a sequence of tokens, "/" being
   the separator, so that "/p/" is <<"/", "p", "/">>.  The scheme and the host
   are kept lowercase by Url::parse.                                        *)

Url(h, p) == [host |-> h, path |-> p]

\* Url::scheme: http where the model leaves the scheme out
scheme(u) == IF "scheme" \in DOMAIN u THEN u.scheme ELSE "http"

\* Url::as_str
as_str(u) == <<scheme(u), "://", u.host>> \o u.path

\* str::to_lowercase on one token
LowerTok(t) ==
    CASE t = "P" -> "p"
      [] t = ".PDF" -> ".pdf"
      [] t \in {"HTTP", "Http"} -> "http"
      [] t = "A" -> "a"
      [] OTHER -> t

to_lowercase(s) == [i \in 1..Len(s) |-> LowerTok(s[i])]

\* a normalization that keeps trailing slashes
keep_trailing_slash(s) == s

RECURSIVE trim_end_matches_slash(_)
trim_end_matches_slash(s) ==
    IF s # <<>> /\ Last(s) = "/" THEN trim_end_matches_slash(SubSeq(s, 1, Len(s) - 1))
    ELSE s

\* ParallelPDFCrawler::hash_url: the normalized string stands for its hash
hash_url(u) == to_lowercase(trim_end_matches_slash(as_str(u)))

\* Path::new(url.path()).file_name(): the last component, trailing separators ignored
RECURSIVE LastComponent(_)
LastComponent(p) ==
    IF p = <<>> \/ Last(p) = "/" THEN <<>>
    ELSE LastComponent(SubSeq(p, 1, Len(p) - 1)) \o <<Last(p)>>

file_name(p) == LastComponent(trim_end_matches_slash(p))

\* sanitize_filename: empty -> document.pdf, the suffix .pdf ensured
sanitize_filename(n) ==
    IF n = <<>> THEN <<"document", ".pdf">>
    ELSE IF LowerTok(Last(n)) # ".pdf" THEN n \o <<".pdf">>
    ELSE n

\* get_safe_filename: Content-Disposition first, then the last path segment
get_safe_filename(u, disp) ==
    IF disp # <<>> THEN sanitize_filename(disp)
    ELSE sanitize_filename(file_name(u.path))

\* format!("{}.tmp", final_filename)
TempName(n) == n \o <<".tmp">>

IsTmp(n) == n # <<>> /\ Last(n) = ".tmp"

----------------------------------------------------------------------------
(* File contents.  A body is a sequence of chunks [kind, size].
     PdfHead  begins "%PDF-1.4", then "1 0 obj << /Type /Catalog >> endobj"
     Body     stream data, none of the words the validators look for
     Trailer  ends "xref ... trailer << /Root ... >> startxref n %%EOF"
     Html     begins "<!DOCTYPE html>"
     Mixed    holds "pdf" and "obj" but does not begin with "%PDF"
   A file is [data, alloc]: the chunks written from offset 0 and the length
   set by File::set_len (zero filled).                                       *)

SmallChunk == 60
BigChunk == 60000000

Chunk(k, n) == [kind |-> k, size |-> n]

Chunks ==
    {Chunk(k, SmallChunk) : k \in {"PdfHead", "Trailer", "Html", "Mixed"}}
    \cup {Chunk(k, BigChunk) : k \in {"PdfHead", "Body"}}

RECURSIVE SumSizes(_)
SumSizes(d) == IF d = <<>> THEN 0 ELSE d[1].size + SumSizes(Tail(d))

ChunkEnd(d, i) == SumSizes(SubSeq(d, 1, i))
ChunkStart(d, i) == SumSizes(SubSeq(d, 1, i - 1))

FileSize(f) == Max(SumSizes(f.data), f.alloc)

\* program constants of PDFValidator
MinPdfSize == 100
MaxPdfSize == 500000000
StructReadLimit == 1000000
EofMarkerLen == 5
\* the download ceiling
DownloadCeiling == 100000000

\* PDFValidator::validate_header on the first 16 bytes of the file
validate_header(f) == f.data # <<>> /\ f.data[1].kind = "PdfHead"

\* PDFValidator::check_eof_marker: "%%EOF" or "startxref" in the last 32..256 bytes
check_eof_marker(f) ==
    \E s \in {32, 64, 128, 256} :
        /\ FileSize(f) >= s
        /\ \E i \in 1..Len(f.data) :
              /\ f.data[i].kind = "Trailer"
              /\ (FileSize(f) - ChunkEnd(f.data, i)) + EofMarkerLen <= s

\* the words of chunk i lie in the first StructReadLimit bytes that are read
HeadWordsRead(f, i) ==
    ChunkStart(f.data, i) + Min(f.data[i].size, SmallChunk) <= Min(FileSize(f), StructReadLimit)
TailWordsRead(f, i) ==
    ChunkEnd(f.data, i) <= Min(FileSize(f), StructReadLimit)

\* PDFValidator::validate_pdf_structure
validate_pdf_structure(f) ==
    LET has_version == validate_header(f)
        has_objects == \E i \in 1..Len(f.data) : f.data[i].kind = "PdfHead" /\ HeadWordsRead(f, i)
        has_keywords == has_objects
        has_xref == \E i \in 1..Len(f.data) : f.data[i].kind = "Trailer" /\ TailWordsRead(f, i)
        has_trailer == has_xref
        has_startxref == has_xref
    IN  has_version /\ (   (has_objects /\ (has_xref \/ has_trailer))
                        \/ (has_startxref /\ has_keywords)
                        \/ (has_xref /\ has_trailer))

\* PDFValidator::validate_complete_pdf
validate_complete_pdf(f) ==
    /\ FileSize(f) >= MinPdfSize
    /\ FileSize(f) <= MaxPdfSize
    /\ validate_header(f)
    /\ check_eof_marker(f)
    /\ validate_pdf_structure(f)

\* PDFValidator::is_likely_html_or_xml
is_likely_html_or_xml(c) == c.kind = "Html"

\* PDFValidator::is_likely_pdf_start
is_likely_pdf_start(c) == c.size >= 4 /\ c.kind \in {"PdfHead", "Mixed"}

----------------------------------------------------------------------------
(* PackedCounters: four 16-bit fields of one AtomicU64; fetch_add and
   fetch_sub of 1 << shift carry into, and borrow from, the fields above.   *)

FieldMod == 65536

RECURSIVE AddAt(_, _)
AddAt(c, i) ==
    IF i > 4 THEN c
    ELSE IF c[i] = FieldMod - 1 THEN AddAt([c EXCEPT ![i] = 0], i + 1)
    ELSE [c EXCEPT ![i] = c[i] + 1]

RECURSIVE SubAt(_, _)
SubAt(c, i) ==
    IF i > 4 THEN c
    ELSE IF c[i] = 0 THEN SubAt([c EXCEPT ![i] = FieldMod - 1], i + 1)
    ELSE [c EXCEPT ![i] = c[i] - 1]

inc_downloaded(c) == AddAt(c, 1)
inc_failed(c) == AddAt(c, 2)
inc_queued(c) == AddAt(c, 3)
dec_queued(c) == SubAt(c, 3)
inc_cache_hits(c) == AddAt(c, 4)

----------------------------------------------------------------------------
(* pdf_downloader: the download task spawned by crawl_and_download and
   download_pdf_with_validation.  dl.pc is the await point the task is at:
     idle    stream.next().await
     send    client.get(url).send().await
     stream  stream.next().await of the body
     flush   file.flush() / file.sync_all()
     check   the Content-Length comparison and validate_complete_pdf
     rename  tokio::fs::rename
     exit    the task has returned
   The fields final .. outcome keep what the last download did.             *)

NoUrl == Url("", <<>>)

DlFresh ==
    [pc |-> "idle", url |-> NoUrl, final |-> <<>>, temp |-> <<>>, expected |-> None,
     total |-> 0, first_chunk |-> TRUE, nchunks |-> 0, trail |-> <<>>,
     preValid |-> FALSE, tmpCreated |-> FALSE, outcome |-> "none", downloaded_count |-> 0]

DlUrls == {Url("a", <<"/", "d", ".pdf">>), Url("a", <<"/", "r">>)}

Dispositions == {<<>>, <<"d", ".pdf">>}

ContentTypes == {"none", "html", "pdf"}

ContentLengths == {None, 2 * SmallChunk}

EmptyFile(n) == [data |-> <<>>, alloc |-> n]

Exists(fs, n) == n \in DOMAIN fs

RemoveFile(fs, n) == [m \in DOMAIN fs \ {n} |-> fs[m]]

PutFile(fs, n, f) == [m \in DOMAIN fs \cup {n} |-> IF m = n THEN f ELSE fs[m]]

\* the match on the result of timeout(download_timeout, download_pdf_with_validation(..))
DlFinish(o, fs) ==
    /\ files' = fs
    /\ counters' = IF o \in {"ok", "skipped"} THEN inc_downloaded(counters)
                   ELSE inc_failed(counters)
    /\ dl' = [dl EXCEPT !.pc = "idle", !.outcome = o,
                        !.expected = None, !.total = 0, !.nchunks = 0, !.first_chunk = TRUE,
                        !.trail = IF o = "ok" THEN @ ELSE <<>>,
                        !.downloaded_count = IF o \in {"ok", "skipped"} THEN @ + 1 ELSE @]

\* the Content-Length comparison after the stream ended
LengthMatches(d) == d.expected = None \/ d.total = d.expected

\* the post-flight test the rename depends on
TempPassesValidationSkipped(d, fs) == TRUE
TempPassesValidation(d, fs) == validate_complete_pdf(fs[d.temp])

\* the pre-flight test "if final_filepath.exists() && !resume"
SkipsExisting(fs, n, r) == Exists(fs, n) /\ ~r

\* while let Some(url) = stream.next().await { if shutdown .. break; counters.dec_queued(); ..
DlNext ==
    /\ prog \in {"download"}
    /\ dl.pc = "idle"
    /\ pdf_queue # <<>>
    /\ pdf_queue' = Tail(pdf_queue)
    /\ IF shutdown_signal
       THEN /\ dl' = [dl EXCEPT !.pc = "exit"]
            /\ counters' = counters
       ELSE /\ dl' = [DlFresh EXCEPT !.pc = "send", !.url = Head(pdf_queue),
                                     !.downloaded_count = dl.downloaded_count]
            /\ counters' = dec_queued(counters)
    /\ UNCHANGED <<prog, fcall, stats, jVars, crVars, files, pdf_closed, shutdown_signal, resume, run, seed_list, committed>>

\* stream.next() returns None: the channel is empty and every sender is gone
DlClosed ==
    /\ prog \in {"download"}
    /\ dl.pc = "idle"
    /\ pdf_queue = <<>>
    /\ pdf_closed
    /\ dl' = [dl EXCEPT !.pc = "exit"]
    /\ UNCHANGED <<prog, fcall, stats, jVars, crVars, files, pdf_queue, pdf_closed, counters, shutdown_signal, resume, run,
                   seed_list, committed>>

\* client.get(url).send().await?.error_for_status()? fails
DlSendError ==
    /\ dl.pc = "send"
    /\ DlFinish("err", files)
    /\ UNCHANGED <<prog, fcall, stats, jVars, crVars, pdf_queue, pdf_closed, shutdown_signal, resume, run, seed_list, committed>>

\* the response headers arrive: file names, pre-flight test, Content-Type test, File::create
DlHeaders ==
    /\ dl.pc = "send"
    /\ \E disp \in Dispositions, ctype \in ContentTypes, clen \in ContentLengths,
          created \in BOOLEAN :
          LET final == get_safe_filename(dl.url, disp)
              temp == TempName(final)
              valid == Exists(files, final) /\ validate_complete_pdf(files[final])
              fs1 == IF SkipsExisting(files, final, resume) /\ ~valid
                     THEN RemoveFile(files, final) ELSE files
              d1 == [dl EXCEPT !.final = final, !.temp = temp, !.preValid = valid]
          IN  IF SkipsExisting(files, final, resume) /\ valid
              THEN /\ files' = files
                   /\ counters' = inc_downloaded(counters)
                   /\ dl' = [d1 EXCEPT !.pc = "idle", !.outcome = "skipped",
                                       !.downloaded_count = @ + 1]
              ELSE IF ctype = "html" \/ ~created
              THEN /\ files' = fs1
                   /\ counters' = inc_failed(counters)
                   /\ dl' = [d1 EXCEPT !.pc = "idle", !.outcome = "err"]
              ELSE /\ files' = PutFile(fs1, temp, EmptyFile(IF clen = None THEN 0 ELSE clen))
                   /\ counters' = counters
                   /\ dl' = [d1 EXCEPT !.pc = "stream", !.expected = clen,
                                       !.tmpCreated = TRUE]
    /\ UNCHANGED <<prog, fcall, stats, jVars, crVars, pdf_queue, pdf_closed, shutdown_signal, resume, run, seed_list, committed>>

\* one chunk of the body: first-chunk tests, write_all, the size ceiling
DlChunk ==
    /\ dl.pc = "stream"
    /\ dl.nchunks < MaxChunks
    /\ \E c \in Chunks, written \in BOOLEAN :
          LET f == files[dl.temp]
              total == dl.total + c.size
          IN  IF dl.first_chunk /\ (is_likely_html_or_xml(c) \/ ~is_likely_pdf_start(c))
              THEN DlFinish("err", RemoveFile(files, dl.temp))
              ELSE IF ~written
              THEN DlFinish("err", files)
              ELSE IF total > DownloadCeiling
              THEN DlFinish("err", RemoveFile(files, dl.temp))
              ELSE /\ files' = PutFile(files, dl.temp, [f EXCEPT !.data = Append(@, c)])
                   /\ counters' = counters
                   /\ dl' = [dl EXCEPT !.total = total, !.nchunks = @ + 1,
                                       !.first_chunk = FALSE,
                                       !.trail = IF dl.first_chunk
                                                 THEN <<"first_chunk_ok", "within_ceiling">>
                                                 ELSE @]
    /\ UNCHANGED <<prog, fcall, stats, jVars, crVars, pdf_queue, pdf_closed, shutdown_signal, resume, run, seed_list, committed>>

\* chunk_result is Err: "Failed to read chunk"
DlReadError ==
    /\ dl.pc = "stream"
    /\ DlFinish("err", files)
    /\ UNCHANGED <<prog, fcall, stats, jVars, crVars, pdf_queue, pdf_closed, shutdown_signal, resume, run, seed_list, committed>>

\* the body stream ends
DlEndOfStream ==
    /\ dl.pc = "stream"
    /\ dl' = [dl EXCEPT !.pc = "flush"]
    /\ UNCHANGED <<prog, fcall, stats, jVars, crVars, files, pdf_queue, pdf_closed, counters, shutdown_signal, resume, run,
                   seed_list, committed>>

\* file.flush().await?; file.sync_all().await?; drop(file)
DlSync ==
    /\ dl.pc = "flush"
    /\ \/ /\ dl' = [dl EXCEPT !.pc = "check", !.trail = Append(@, "synced")]
          /\ UNCHANGED <<files, counters>>
       \/ DlFinish("err", files)
    /\ UNCHANGED <<prog, fcall, stats, jVars, crVars, pdf_queue, pdf_closed, shutdown_signal, resume, run, seed_list, committed>>

\* the Content-Length comparison, then validate_complete_pdf on the temp file
DlCheck ==
    /\ dl.pc = "check"
    /\ IF ~LengthMatches(dl)
       THEN DlFinish("err", RemoveFile(files, dl.temp))
       ELSE IF ~TempPassesValidation(dl, files)
       THEN DlFinish("err", RemoveFile(files, dl.temp))
       ELSE /\ dl' = [dl EXCEPT !.pc = "rename",
                                !.trail = @ \o (IF dl.expected = None THEN <<>>
                                                ELSE <<"length_ok">>) \o <<"validated">>]
            /\ UNCHANGED <<files, counters>>
    /\ UNCHANGED <<prog, fcall, stats, jVars, crVars, pdf_queue, pdf_closed, shutdown_signal, resume, run, seed_list, committed>>

\* tokio::fs::rename(temp, final)
DlRename ==
    /\ dl.pc = "rename"
    /\ \/ /\ DlFinish("ok", PutFile(RemoveFile(files, dl.temp), dl.final, files[dl.temp]))
          /\ committed' = committed \cup {dl.final}
       \/ /\ DlFinish("err", files)
          /\ committed' = committed
    /\ UNCHANGED <<prog, fcall, stats, jVars, crVars, pdf_queue, pdf_closed, shutdown_signal, resume, run, seed_list>>

\* download_timeout elapses: the future of the download is dropped where it waits
DlTimeout ==
    /\ dl.pc \in {"send", "stream", "flush", "check", "rename"}
    /\ DlFinish("timeout", files)
    /\ UNCHANGED <<prog, fcall, stats, jVars, crVars, pdf_queue, pdf_closed, shutdown_signal, resume, run, seed_list, committed>>

\* crawl_and_download: timeout(60 s, download_handle) elapses and sets the flag
OrchDownloadWaitTimeout ==
    /\ prog \in {"download"}
    /\ pdf_closed
    /\ dl.pc # "exit"
    /\ ~shutdown_signal
    /\ shutdown_signal' = TRUE
    /\ UNCHANGED <<prog, fcall, stats, jVars, crVars, files, pdf_queue, pdf_closed, dl, counters, resume, run, seed_list,
                   committed>>

\* the program is started again on the same download_dir with the same crawl result
DlNextRun ==
    /\ prog \in {"download"}
    /\ dl.pc = "exit"
    /\ run < MaxRuns
    /\ run' = run + 1
    /\ pdf_queue' = seed_list
    /\ counters' = <<0, 0, Len(seed_list), 0>>
    /\ shutdown_signal' = FALSE
    /\ dl' = DlFresh
    /\ UNCHANGED <<prog, fcall, stats, jVars, crVars, files, pdf_closed, resume, seed_list, committed>>

JunkFile == [data |-> <<Chunk("Html", SmallChunk)>>, alloc |-> 0]

\* the variables of the crawlers while another program runs
IdleCrawl ==
    /\ cfg = <<>>
    /\ crawl_queue = <<>>
    /\ visited_urls = {}
    /\ tasks = <<>>
    /\ main = <<>>
    /\ retry_tasks = <<>>
    /\ pdf_senders = <<>>
    /\ pdf_cache = <<>>
    /\ limiters = <<>>
    /\ sent = <<>>
    /\ log = <<>>

\* the variables of the journal writer while another program runs
IdleJournal ==
    /\ results = <<>>
    /\ discovered_urls = {}
    /\ jdisk = <<>>
    /\ writer = <<>>
    /\ past = {}
    /\ dup_seen = FALSE

InitDownload ==
    /\ prog = "download"
    /\ fcall = <<>>
    /\ stats = <<>>
    /\ IdleJournal
    /\ IdleCrawl
    /\ files \in {<<>>, [n \in {<<"d", ".pdf">>} |-> JunkFile]}
    /\ seed_list \in {<<u>> : u \in DlUrls}
    /\ pdf_queue = seed_list
    /\ pdf_closed = TRUE
    /\ dl = DlFresh
    /\ counters = <<0, 0, Len(seed_list), 0>>
    /\ shutdown_signal = FALSE
    /\ resume \in BOOLEAN
    /\ run = 1
    /\ committed = {}

NextDownload ==
    \/ DlNext
    \/ DlClosed
    \/ DlSendError
    \/ DlHeaders
    \/ DlChunk
    \/ DlReadError
    \/ DlEndOfStream
    \/ DlSync
    \/ DlCheck
    \/ DlRename
    \/ DlTimeout
    \/ OrchDownloadWaitTimeout
    \/ DlNextRun

SpecDownload == InitDownload /\ [][NextDownload]_vars

----------------------------------------------------------------------------
(* Claims about the downloader *)

Has(t, a) == \E i \in 1..Len(t) : t[i] = a
Before(t, a, b) == \A i, j \in 1..Len(t) : (t[i] = a /\ t[j] = b) => i < j

\* the temp files present in download_dir
TempFiles == {n \in DOMAIN files : IsTmp(n)}

\* C2: whenever a download ends in failure after its temp file was created, (error
\* or cancellation by download_timeout), <final>.tmp no longer exists, and when the
\* download task has returned no .tmp file remains in download_dir.
C2_TempUnlinkedOnFailure ==
    prog = "download" =>
        /\ (dl.pc = "idle" /\ dl.outcome \in {"err", "timeout"} /\ dl.tmpCreated)
              => ~Exists(files, dl.temp)
        /\ dl.pc = "exit" => TempFiles = {}

\* the checks of a committed download, in the order the claim C3 states them
OrderAsClaimed(t) ==
    /\ Has(t, "first_chunk_ok") /\ Has(t, "within_ceiling")
    /\ Has(t, "synced") /\ Has(t, "validated")
    /\ Before(t, "first_chunk_ok", "within_ceiling")
    /\ Before(t, "within_ceiling", "length_ok")
    /\ Before(t, "within_ceiling", "synced")
    /\ Before(t, "length_ok", "synced")
    /\ Before(t, "synced", "validated")

\* the same checks with the sync before the Content-Length comparison
OrderOfCode(t) ==
    /\ Has(t, "first_chunk_ok") /\ Has(t, "within_ceiling")
    /\ Has(t, "synced") /\ Has(t, "validated")
    /\ Before(t, "first_chunk_ok", "within_ceiling")
    /\ Before(t, "within_ceiling", "synced")
    /\ Before(t, "synced", "length_ok")
    /\ Before(t, "length_ok", "validated")
    /\ Before(t, "synced", "validated")

\* a final path holds what the run found there or what a rename put there, and every
\* committed file passes validate_complete_pdf
CommittedFilesValid ==
    /\ \A n \in committed : Exists(files, n) /\ validate_complete_pdf(files[n])
    /\ \A n \in DOMAIN files : IsTmp(n) \/ n \in committed \/ files[n] = JunkFile

\* C3 as stated: a file reaches its final path only by the rename of its temp file,
\* after first-chunk check, size ceiling, Content-Length match, sync and
\* validate_complete_pdf in this order; every committed file passes validate_complete_pdf.
C3_CommitOrderAsClaimed ==
    prog = "download" =>
        /\ CommittedFilesValid
        /\ dl.outcome = "ok" => OrderAsClaimed(dl.trail)

\* C3 amended: the same, with the data synced to disk before the size is compared
\* with Content-Length (first-chunk check, ceiling, sync, Content-Length match,
\* validate_complete_pdf, rename).
C3_CommitOnlyAfterChecks ==
    prog = "download" =>
        /\ CommittedFilesValid
        /\ dl.outcome = "ok" => OrderOfCode(dl.trail)

\* C3 witness: a download with a known Content-Length was committed
C3_Witness ==
    /\ prog = "download"
    /\ dl.pc = "idle" /\ dl.outcome = "ok"
    /\ Has(dl.trail, "length_ok")
    /\ dl.final \in committed

\* C4: with resume = TRUE the second run finds the final file present and valid and
\* performs no download: no temp file is created and no body is streamed.
C4_ResumeSecondRunNoDownload ==
    (prog = "download" /\ resume /\ run > 1 /\ dl.preValid) => ~dl.tmpCreated

----------------------------------------------------------------------------
(* web_crawler_pdf: the JSON journal.  main.rs: writer_task, write_results. *)
(* v2/main.rs: IncrementalWriter.                                           *)


\* the url strings of the PdfInfo records offered to the writer
JUrls == {"u1", "u2"}

PdfInfo(url, verified) == [url |-> url, verified |-> verified]

\* the status strings the crawler puts in UpdateMetadata
MsgStatuses == {"initializing", "in_progress", "completed", "failed"}

InitialResults(status) ==
    [metadata |-> [total_pages_crawled |-> 0, total_pdfs_found |-> 0,
                   verified_pdfs |-> 0, failed_verifications |-> 0,
                   status |-> status],
     pdfs |-> <<>>]

\* a handler that bumps verified / failed before it looks at discovered_urls
AddPdfCountsFirst(r, seen, pdf) ==
    LET pdfs == IF pdf.url \in seen THEN r.pdfs ELSE Append(r.pdfs, pdf)
    IN  [metadata |-> [r.metadata EXCEPT
                          !.total_pdfs_found = Len(pdfs),
                          !.verified_pdfs = @ + (IF pdf.verified THEN 1 ELSE 0),
                          !.failed_verifications = @ + (IF pdf.verified THEN 0 ELSE 1)],
         pdfs |-> pdfs]

\* a handler that does not look at discovered_urls
AddPdfNoDedup(r, seen, pdf) ==
    LET pdfs == Append(r.pdfs, pdf)
    IN  [metadata |-> [r.metadata EXCEPT
                          !.total_pdfs_found = Len(pdfs),
                          !.verified_pdfs = @ + (IF pdf.verified THEN 1 ELSE 0),
                          !.failed_verifications = @ + (IF pdf.verified THEN 0 ELSE 1)],
         pdfs |-> pdfs]

\* a handler that puts the new record first
AddPdfAtFront(r, seen, pdf) ==
    IF pdf.url \in seen
    THEN r
    ELSE LET pdfs == <<pdf>> \o r.pdfs
         IN  [metadata |-> [r.metadata EXCEPT
                               !.total_pdfs_found = Len(pdfs),
                               !.verified_pdfs = @ + (IF pdf.verified THEN 1 ELSE 0),
                               !.failed_verifications = @ + (IF pdf.verified THEN 0 ELSE 1)],
              pdfs |-> pdfs]

\* writer_task, arm WriterMessage::AddPdf
AddPdf(r, seen, pdf) ==
    IF pdf.url \in seen
    THEN r
    ELSE LET pdfs == Append(r.pdfs, pdf)
             last_pdf == Last(pdfs)
         IN  [metadata |-> [r.metadata EXCEPT
                               !.total_pdfs_found = Len(pdfs),
                               !.verified_pdfs = @ + (IF last_pdf.verified THEN 1 ELSE 0),
                               !.failed_verifications = @ + (IF last_pdf.verified THEN 0 ELSE 1)],
              pdfs |-> pdfs]

\* writer_task, arm WriterMessage::UpdateMetadata
UpdateMetadata(r, pages_crawled, status) ==
    [r EXCEPT !.metadata.total_pages_crawled = pages_crawled,
              !.metadata.status = status]

\* IncrementalWriter::add_pdf, up to the flush
add_pdf(r, seen, pdf) ==
    IF pdf.url \in seen
    THEN r
    ELSE [metadata |-> [r.metadata EXCEPT
                           !.total_pdfs_found = @ + 1,
                           !.verified_pdfs = @ + (IF pdf.verified THEN 1 ELSE 0),
                           !.failed_verifications = @ + (IF pdf.verified THEN 0 ELSE 1)],
          pdfs |-> Append(r.pdfs, pdf)]

\* IncrementalWriter::inc_pages and ::finish, up to the flush
inc_pages(r) == [r EXCEPT !.metadata.total_pages_crawled = @ + 1]
finish(r) == [r EXCEPT !.metadata.status = "completed"]

JournalProgs == {"journal", "journal2"}

\* the programs that run writer_task of main.rs, and those that write the report
WriterTaskProgs == {"journal", "report"}
DiskProgs == JournalProgs \cup {"report"}

\* the variables of the other programs
jFrame == <<prog, fcall, stats, dlVars, crVars>>

\* a file of the output directory: the document serialised into it, how much
\* of the serialisation is in the file, and whether it was synced
JFile(doc, written, synced) ==
    [exists |-> TRUE, doc |-> doc, written |-> written, synced |-> synced]

\* the path names no file
NoFile == [exists |-> FALSE, doc |-> InitialResults("none"), written |-> "empty",
           synced |-> FALSE]

\* the writer goes on to write the document it now holds
JGoWrite(w) == [pc |-> "create", taken |-> w.taken + 1]
JGoRecv(w) == [pc |-> "recv", taken |-> w.taken + 1]

\* writer_task: write_results(&results) before the receive loop
JStart ==
    /\ prog \in WriterTaskProgs
    /\ writer.pc = "start"
    /\ writer' = [writer EXCEPT !.pc = "create"]
    /\ UNCHANGED <<results, discovered_urls, jdisk, past, dup_seen>>
    /\ UNCHANGED jFrame

\* writer_task: recv() yields AddPdf(pdf)
JAddPdf ==
    /\ prog = "journal"
    /\ writer.pc = "recv"
    /\ writer.taken < MaxMsgs
    /\ \E url \in JUrls, verified \in BOOLEAN :
          /\ results' = AddPdf(results, discovered_urls, PdfInfo(url, verified))
          /\ discovered_urls' = discovered_urls \cup {url}
          /\ dup_seen' = (dup_seen \/ url \in discovered_urls)
          /\ writer' = IF url \in discovered_urls THEN JGoRecv(writer) ELSE JGoWrite(writer)
    /\ past' = past \cup {results'}
    /\ UNCHANGED jdisk
    /\ UNCHANGED jFrame

\* writer_task: recv() yields UpdateMetadata { pages_crawled, status }
JUpdateMetadata ==
    /\ prog = "journal"
    /\ writer.pc = "recv"
    /\ writer.taken < MaxMsgs
    /\ \E pages_crawled \in 0..MaxPages, status \in MsgStatuses :
          results' = UpdateMetadata(results, pages_crawled, status)
    /\ past' = past \cup {results'}
    /\ writer' = JGoWrite(writer)
    /\ UNCHANGED <<discovered_urls, jdisk, dup_seen>>
    /\ UNCHANGED jFrame

\* v2: a crawl task calls w.add_pdf(p) under the writer's mutex
J2AddPdf ==
    /\ prog = "journal2"
    /\ writer.pc = "recv"
    /\ writer.taken < MaxMsgs
    /\ \E url \in JUrls, verified \in BOOLEAN :
          /\ results' = add_pdf(results, discovered_urls, PdfInfo(url, verified))
          /\ discovered_urls' = discovered_urls \cup {url}
          /\ dup_seen' = (dup_seen \/ url \in discovered_urls)
          /\ writer' = IF url \in discovered_urls THEN JGoRecv(writer) ELSE JGoWrite(writer)
    /\ past' = past \cup {results'}
    /\ UNCHANGED jdisk
    /\ UNCHANGED jFrame

\* v2: w.inc_pages()
J2IncPages ==
    /\ prog = "journal2"
    /\ writer.pc = "recv"
    /\ writer.taken < MaxMsgs
    /\ results.metadata.total_pages_crawled < MaxPages
    /\ results' = inc_pages(results)
    /\ past' = past \cup {results'}
    /\ writer' = JGoWrite(writer)
    /\ UNCHANGED <<discovered_urls, jdisk, dup_seen>>
    /\ UNCHANGED jFrame

\* v2: w.finish()
J2Finish ==
    /\ prog = "journal2"
    /\ writer.pc = "recv"
    /\ writer.taken < MaxMsgs
    /\ results' = finish(results)
    /\ past' = past \cup {results'}
    /\ writer' = JGoWrite(writer)
    /\ UNCHANGED <<discovered_urls, jdisk, dup_seen>>
    /\ UNCHANGED jFrame

\* recv() yields None: every sender is gone (v2: the crawl is over)
JClosed ==
    /\ prog \in JournalProgs
    /\ writer.pc = "recv"
    /\ writer' = [writer EXCEPT !.pc = "done"]
    /\ UNCHANGED <<results, discovered_urls, jdisk, past, dup_seen>>
    /\ UNCHANGED jFrame

\* File::create(&temp_file) / the open inside tokio::fs::write(&tmp, ..)
JCreate ==
    /\ prog \in DiskProgs
    /\ writer.pc = "create"
    /\ jdisk' = [jdisk EXCEPT !.tmp = JFile(results, "empty", FALSE)]
    /\ writer' = [writer EXCEPT !.pc = "write"]
    /\ UNCHANGED <<results, discovered_urls, past, dup_seen>>
    /\ UNCHANGED jFrame

\* write_all: a first part of the bytes has reached the temp file
JWritePart ==
    /\ prog \in DiskProgs
    /\ writer.pc = "write"
    /\ jdisk.tmp.written = "empty"
    /\ jdisk' = [jdisk EXCEPT !.tmp.written = "partial"]
    /\ UNCHANGED <<results, discovered_urls, writer, past, dup_seen>>
    /\ UNCHANGED jFrame

\* write_all returns: all bytes are in the temp file.  write_results goes on
\* to sync_all; flush of v2 goes straight to the rename
JWriteAll ==
    /\ prog \in DiskProgs
    /\ writer.pc = "write"
    /\ jdisk' = [jdisk EXCEPT !.tmp.written = "full"]
    /\ writer' = [writer EXCEPT !.pc = IF prog \in WriterTaskProgs THEN "sync" ELSE "rename"]
    /\ UNCHANGED <<results, discovered_urls, past, dup_seen>>
    /\ UNCHANGED jFrame

\* write_results: file.sync_all()
JSync ==
    /\ prog \in WriterTaskProgs
    /\ writer.pc = "sync"
    /\ jdisk' = [jdisk EXCEPT !.tmp.synced = TRUE]
    /\ writer' = [writer EXCEPT !.pc = "rename"]
    /\ UNCHANGED <<results, discovered_urls, past, dup_seen>>
    /\ UNCHANGED jFrame

\* tokio::fs::rename(temp, output)
JRename ==
    /\ prog \in DiskProgs
    /\ writer.pc = "rename"
    /\ jdisk' = [out |-> jdisk.tmp, tmp |-> NoFile]
    /\ writer' = [writer EXCEPT !.pc = "recv"]
    /\ UNCHANGED <<results, discovered_urls, past, dup_seen>>
    /\ UNCHANGED jFrame

\* a file operation fails.  write_results returns the error and writer_task
\* ends with it; in v2 the unwrap panics the calling crawl task and the other
\* tasks go on using the writer
JIoError ==
    /\ prog \in DiskProgs
    /\ writer.pc \in {"create", "write", "sync", "rename"}
    /\ writer' = [writer EXCEPT !.pc = IF prog \in WriterTaskProgs THEN "done" ELSE "recv"]
    /\ UNCHANGED <<results, discovered_urls, jdisk, past, dup_seen>>
    /\ UNCHANGED jFrame

\* the variables of the downloader while another program runs
IdleDownload ==
    /\ files = <<>>
    /\ pdf_queue = <<>>
    /\ pdf_closed = FALSE
    /\ dl = <<>>
    /\ counters = <<0, 0, 0, 0>>
    /\ shutdown_signal = FALSE
    /\ resume = FALSE
    /\ run = 0
    /\ seed_list = <<>>
    /\ committed = {}

InitJournal ==
    /\ prog \in JournalProgs
    /\ fcall = <<>>
    /\ stats = <<>>
    /\ IdleDownload
    /\ IdleCrawl
    /\ results = InitialResults(IF prog = "journal" THEN "in_progress" ELSE "running")
    /\ discovered_urls = {}
    /\ jdisk = [out |-> NoFile, tmp |-> NoFile]
    /\ writer = [pc |-> IF prog = "journal" THEN "start" ELSE "recv", taken |-> 0]
    /\ past = {results}
    /\ dup_seen = FALSE

NextJournal ==
    \/ JStart
    \/ JAddPdf
    \/ JUpdateMetadata
    \/ J2AddPdf
    \/ J2IncPages
    \/ J2Finish
    \/ JClosed
    \/ JCreate
    \/ JWritePart
    \/ JWriteAll
    \/ JSync
    \/ JRename
    \/ JIoError

SpecJournal == InitJournal /\ [][NextJournal]_vars

----------------------------------------------------------------------------
(* Claims about the journal *)

CountsAgree(doc) ==
    /\ doc.metadata.total_pdfs_found = Len(doc.pdfs)
    /\ doc.metadata.verified_pdfs + doc.metadata.failed_verifications
          <= doc.metadata.total_pdfs_found

\* C5: after every message the writer has processed, duplicates included,
\* total_pdfs_found is the length of pdfs and verified_pdfs plus
\* failed_verifications does not exceed it; the same holds of every document
\* that is in the temp file or the output file.
C5_JournalCountsAgree ==
    prog \in JournalProgs =>
        /\ CountsAgree(results)
        /\ jdisk.out.exists => CountsAgree(jdisk.out.doc)
        /\ jdisk.tmp.exists => CountsAgree(jdisk.tmp.doc)

\* a duplicate was processed, two records are held, and that document is out
C5_Witness ==
    /\ prog \in JournalProgs
    /\ dup_seen
    /\ writer.pc = "recv"
    /\ Len(results.pdfs) = 2
    /\ jdisk.out.exists
    /\ jdisk.out.doc = results

\* C6: the output file holds, whenever it exists, the complete serialisation
\* of a state the writer held, and it got there by a rename of a temp file
\* that had been written in full and synced.
C6_OutputCompleteAndSynced ==
    prog \in JournalProgs =>
        (jdisk.out.exists =>
            /\ jdisk.out.written = "full"
            /\ jdisk.out.doc \in past
            /\ jdisk.out.synced)

\* the urls of the records of a document, in order
UrlsOf(doc) == [i \in DOMAIN doc.pdfs |-> doc.pdfs[i].url]

\* no url occurs twice
NoRepeat(seq) == \A i, j \in DOMAIN seq : seq[i] = seq[j] => i = j

\* a step of the writer keeps the records it holds and appends at most at the
\* end; a step that took a message and wrote nothing changed nothing
RecordsKept ==
    /\ Len(results'.pdfs) >= Len(results.pdfs)
    /\ SubSeq(results'.pdfs, 1, Len(results.pdfs)) = results.pdfs
    /\ (writer'.taken # writer.taken /\ writer'.pc = "recv")
           => (results' = results /\ discovered_urls' = discovered_urls)

\* C21: the journal never holds two records with the same url: pdfs holds one
\* record per url received, the first one received (a record once appended
\* stays as it is, and a record is appended only for a url not seen before),
\* and a repeated AddPdf / add_pdf for a url changes neither pdfs nor any
\* count of the metadata.
C21_OneRecordPerUrl ==
    /\ [](prog \in JournalProgs =>
             /\ NoRepeat(UrlsOf(results))
             /\ {results.pdfs[i].url : i \in DOMAIN results.pdfs} = discovered_urls
             /\ jdisk.out.exists => NoRepeat(UrlsOf(jdisk.out.doc))
             /\ jdisk.tmp.exists => NoRepeat(UrlsOf(jdisk.tmp.doc)))
    /\ [][(prog \in JournalProgs) => RecordsKept]_vars

\* a second AddPdf for the one url held was processed and the document on
\* disk is the one with the single record
C21_Witness ==
    /\ prog \in JournalProgs
    /\ dup_seen
    /\ Len(results.pdfs) = 1
    /\ writer.taken = 2
    /\ jdisk.out.exists
    /\ jdisk.out.doc = results

----------------------------------------------------------------------------
(* pdf_downloader: the recursive crawl of ParallelPDFCrawler                *)

\* the urls of the sites served to the crawler
Seed == Url("a", <<"/">>)
PageQ == Url("a", <<"/", "q">>)
PageR == Url("a", <<"/", "r">>)
PageP == Url("a", <<"/", "p">>)
PagePAlias == Url("a", <<"/", "P", "/">>)
PageS == Url("a", <<"/", "s">>)
DocD == Url("a", <<"/", "d", ".pdf">>)
Ext == Url("b", <<"/", "x">>)
ViewPdf == Url("a", <<"/", "viewpdf">>)
Rep == Url("a", <<"/", "rep">>)
Mime == Url("a", <<"/", "m">>)
Down == Url("a", <<"/", "w">>)

Hosts == {"a", "b"}
Graphs == {"diamond", "chain"}
\* the start pages given to the single-page mode
SingleGraphs == {"zero", "probe", "dup"}

\* the anchors of the page at u, in document order
Links(g, u) ==
    IF g = "diamond"
    THEN CASE u = Seed -> <<PageQ, PageR>>
           [] u = PageQ -> <<PageP>>
           [] u = PageR -> <<PagePAlias>>
           [] u \in {PageP, PagePAlias} -> <<Seed, PageS>>
           [] OTHER -> <<>>
    ELSE IF g = "chain"
    THEN CASE u = Seed -> <<PageQ, DocD>>
           [] u = PageQ -> <<PageS, Ext>>
           [] OTHER -> <<>>
    ELSE IF g = "short"
    THEN CASE u = Seed -> <<PageQ, PageR>>
           [] u = PageQ -> <<PageP>>
           [] u = PageP -> <<PageS>>
           [] u = PageR -> <<PageS>>
           [] OTHER -> <<>>
    ELSE IF u # Seed THEN <<>>
    ELSE CASE g = "zero" -> <<DocD, ViewPdf, Rep>>
           [] g = "probe" -> <<Mime, PageS, PageQ>>
           [] g = "dup" -> <<Down, Down>>
           [] g = "pdfs" -> <<DocD, ViewPdf>>
           [] OTHER -> <<>>

\* what the server holds at u: "pdf_mime" answers HEAD with a PDF content
\* type, "pdf_magic" only shows the magic bytes, "page" is HTML
ContentKind(g, u) ==
    CASE u \in {DocD, Mime, Down} -> "pdf_mime"
      [] u = PageS -> IF g \in {"chain", "probe"} THEN "pdf_magic" ELSE "page"
      [] OTHER -> "page"

\* the text of the anchor that links to u, as anchor_text_map keeps it
AnchorText(g, u) ==
    CASE u = Rep -> "report"
      [] u = PageQ -> "next"
      [] OTHER -> ""

\* the urls whose HEAD and Range probes may fail or time out
Unreliable == {Down}

\* the pages whose GET may fail
Flaky == {PageQ}

\* the site "dead" answers every request with an error
AlwaysFails(g, u) == g = "dead"

\* no_work_counter thresholds of run_recursive_crawl_with_shutdown
NoWorkCheck == 20
NoWorkForce == 60

\* max_depth and the fields of CrawlerConfig the crawl reads, with the site
Config(d, cc, gsl, cqb, mr, g) ==
    [max_depth |-> d, concurrent_crawlers |-> cc, global_socket_limit |-> gsl,
     crawl_queue_buffer |-> cqb, pdf_queue_buffer |-> 1, max_retries |-> mr,
     host_rate_limit |-> 1, graph |-> g]

\* the configurations explored: two parallel crawlers on the diamond, a depth
\* limit of 0 and of 3 on the chain (with one retry), a single permit, and a
\* site that fails every request (with one retry)
Configs ==
    {Config(3, 2, 2, 2, 0, "diamond"), Config(0, 2, 2, 2, 1, "chain"),
     Config(None, 2, 1, 1, 0, "diamond"), Config(3, 1, 1, 2, 1, "chain"),
     Config(None, 2, 2, 2, 1, "dead")}

CrawlTask(url, depth, retry_count) ==
    [url |-> url, depth |-> depth, retry_count |-> retry_count]

NoTask == CrawlTask(NoUrl, 0, 0)

\* mpsc::Sender::try_send on a channel of capacity cap: dropped when full
try_send(q, x, cap) == IF Len(q) < cap THEN Append(q, x) ELSE q

\* a set that reports every insert as new
InsertAlwaysNew(set, h) == TRUE

\* DashSet::insert: true exactly when the value was not present
DashSetInsert(set, h) == h \notin set

\* a depth test that lets every link through
ShouldCrawlAlways(max_depth, depth) == TRUE

\* max_depth.map_or(true, |max| task.depth + 1 < max)
should_crawl(max_depth, depth) == max_depth = None \/ depth + 1 < max_depth

\* a host test that lets every link through
SameHostAlways(url, base_host) == TRUE

\* url.host_str() == Some(&base_host)
SameHost(url, base_host) == url.host = base_host

\* cache_ttl and negative_cache_ttl of CrawlerConfig::default, in seconds
CacheTtl == 3600
NegativeCacheTtl == 30

\* the pdf_cache holds, per url, the kind and the seconds since its insert
CacheEntry(kind, age) == [kind |-> kind, age |-> age]

\* Option::None of a lookup
Miss == "Miss"

\* a lookup that never finds an entry
CacheGetMiss(cache, url) == Miss

\* Cache::get under time_to_live(cache_ttl): the kind of a live entry
CacheGet(cache, url) ==
    IF url \in DOMAIN cache /\ cache[url].age < CacheTtl THEN cache[url].kind ELSE Miss

\* Cache::insert: the entry is new again
CacheInsert(cache, url, kind) == (url :> CacheEntry(kind, 0)) @@ cache

\* d seconds go by: every entry ages, the expired ones are gone
CacheAge(cache, d) ==
    LET live == {u \in DOMAIN cache : cache[u].age + d < CacheTtl}
    IN  [u \in live |-> CacheEntry(cache[u].kind, cache[u].age + d)]

\* PDF_URL_PATTERNS on url.as_str(): \.pdf$, \.pdf\?, \.pdf#, /pdf/
UrlPattern(u) ==
    LET str == to_lowercase(as_str(u))
    IN  \/ str # <<>> /\ Last(str) = ".pdf"
        \/ \E i \in 1..(Len(str) - 1) : str[i] = ".pdf" /\ str[i + 1] \in {"?", "#"}
        \/ \E i \in 1..(Len(str) - 2) :
              str[i] = "/" /\ str[i + 1] = "pdf" /\ str[i + 2] = "/"

\* PDF_CLUE_REGEX on url.as_str(): "pdf" anywhere, whatever the case
UrlClue(u) ==
    LET str == to_lowercase(as_str(u))
    IN  \E i \in 1..Len(str) : str[i] \in {".pdf", "pdf", "viewpdf"}

\* ANCHOR_TEXT_REGEX on the text kept in anchor_text_map for the url
AnchorMatch(g, u) ==
    /\ AnchorText(g, u) # ""
    /\ AnchorText(g, u) \in {"download", "pdf", "document", "paper", "report", "slides"}

\* EXTRA_PDF_MIME.contains(ct.essence_str()) on the answer to HEAD
HeadSaysPdf(g, u) == ContentKind(g, u) = "pdf_mime"

\* chunk.starts_with(magic) on the answer to the Range GET
RangeSaysPdf(g, u) == ContentKind(g, u) \in {"pdf_mime", "pdf_magic"}

\* a pipeline that runs every stage
ContinueAlways(kind) == TRUE

\* if kind == PdfKind::No, the test in front of stages 2 to 5
Continue(kind) == kind = "No"

Stage(name, fired) == [stage |-> name, fired |-> fired]

\* one stage of is_pdf_link_optimized: run while kind is No, Yes when it fires
RunStage(acc, name, fired) ==
    IF Continue(acc.kind)
    THEN [acc EXCEPT !.kind = IF fired THEN "Yes" ELSE @,
                     !.stages = Append(@, Stage(name, fired))]
    ELSE acc

\* a classifier that missed the cache, before stage 1
NotFound == [kind |-> Miss, age |-> 0, failed |-> FALSE]

ClsFresh == [kind |-> "No", stages |-> <<Stage("cache", FALSE)>>, failed |-> FALSE,
             found |-> NotFound]

\* stages 1 to 3, which cost no request
ZeroCost(g, u) ==
    RunStage(RunStage(RunStage(ClsFresh, "pattern", UrlPattern(u)),
                      "clue", UrlClue(u)),
             "anchor", AnchorMatch(g, u))

FreeTask == [pc |-> "free", task |-> NoTask, links |-> <<>>, unique |-> <<>>,
             cls |-> <<>>, st |-> <<>>, results |-> <<>>]
FinishedTask == [FreeTask EXCEPT !.pc = "finished"]
TaskStart(t) == [FreeTask EXCEPT !.pc = "limiter", !.task = t]

FreeSlots(ts) == {s \in DOMAIN ts : ts[s].pc = "free"}
\* JoinSet::len: the tasks spawned and not yet joined
JoinSetLen(ts) == Cardinality(DOMAIN ts \ FreeSlots(ts))
FinishedSlots(ts) == {s \in DOMAIN ts : ts[s].pc = "finished"}
\* let _permit = permit; at the head of the spawned future: the permit is
\* held from the spawn to the end of the task's future
HoldsPermit(t) == t.pc \notin {"free", "finished"}

PermitsFree(ts) ==
    cfg.global_socket_limit - Cardinality({s \in DOMAIN ts : HoldsPermit(ts[s])})

\* history of dispatches: identities dispatched as non-retry, identities so
\* dispatched a second time, and the depths dispatched
LogDispatch(l, t) ==
    [l EXCEPT !.depths = @ \cup {t.depth},
              !.first = IF t.retry_count = 0 THEN @ \cup {hash_url(t.url)} ELSE @,
              !.again = IF t.retry_count = 0 /\ hash_url(t.url) \in l.first
                        THEN @ \cup {hash_url(t.url)} ELSE @,
              !.retried = IF t.retry_count > 0 THEN @ \cup {hash_url(t.url)} ELSE @]

\* history of page fetches: the GET of task t leaves
LogFetch(l, t) ==
    LET h == hash_url(t.url)
        n == IF h \in DOMAIN l.attempts THEN l.attempts[h] ELSE 0
    IN  [l EXCEPT !.attempts = (h :> n + 1) @@ @,
                  !.max_rc = Max(@, t.retry_count)]

\* history of requests: one more request to host h leaves now
NoteRequest(sn, h) ==
    IF Len(sn[h]) > cfg.host_rate_limit THEN sn ELSE [sn EXCEPT ![h] = Append(@, 0)]

\* a dispatcher that spawns without asking the semaphore
DispatchWithoutPermit(t, q, ts) ==
    LET s == CHOOSE x \in FreeSlots(ts) : \A y \in FreeSlots(ts) : x <= y
    IN  /\ tasks' = [ts EXCEPT ![s] = TaskStart(t)]
        /\ crawl_queue' = q
        /\ log' = LogDispatch(log, t)

\* try_acquire_owned and spawn, or put the task back (lines 676-695)
Dispatch(t, q, ts) ==
    IF PermitsFree(ts) > 0
    THEN LET s == CHOOSE x \in FreeSlots(ts) : \A y \in FreeSlots(ts) : x <= y
         IN  /\ tasks' = [ts EXCEPT ![s] = TaskStart(t)]
             /\ crawl_queue' = q
             /\ log' = LogDispatch(log, t)
    ELSE /\ tasks' = ts
         /\ crawl_queue' = try_send(q, t, cfg.crawl_queue_buffer)
         /\ log' = log

\* the variables of the other programs
crFrame == <<prog, fcall, stats, jVars, files, pdf_closed, dl, resume, run, seed_list, committed>>

crawlRest == <<cfg, retry_tasks, pdf_senders, pdf_cache, limiters, sent, visited_urls>>

\* select!: crawl_rx.recv() yields a task
MainRecv ==
    /\ prog = "crawl"
    /\ main.pc = "select"
    /\ crawl_queue # <<>>
    /\ LET t == Head(crawl_queue)
           q == Tail(crawl_queue)
       IN  IF JoinSetLen(tasks) >= cfg.concurrent_crawlers
           THEN /\ main' = [pc |-> "capacity", no_work_counter |-> 0, held |-> t]
                /\ crawl_queue' = q
                /\ UNCHANGED <<tasks, log>>
           ELSE /\ main' = [main EXCEPT !.no_work_counter = 0]
                /\ Dispatch(t, q, tasks)
    /\ UNCHANGED <<crawlRest, pdf_queue, counters, shutdown_signal>>
    /\ UNCHANGED crFrame

\* while tasks.len() >= concurrent_crawlers { tasks.join_next().await }
MainCapacityJoin ==
    /\ prog = "crawl"
    /\ main.pc = "capacity"
    /\ \E s \in FinishedSlots(tasks) :
          LET ts == [tasks EXCEPT ![s] = FreeTask]
          IN  IF JoinSetLen(ts) >= cfg.concurrent_crawlers
              THEN /\ tasks' = ts
                   /\ UNCHANGED <<main, crawl_queue, log>>
              ELSE /\ main' = [main EXCEPT !.pc = "select", !.held = NoTask]
                   /\ Dispatch(main.held, crawl_queue, ts)
    /\ UNCHANGED <<crawlRest, pdf_queue, counters, shutdown_signal>>
    /\ UNCHANGED crFrame

\* select!: tasks.join_next() yields a finished task
MainJoin ==
    /\ prog = "crawl"
    /\ main.pc = "select"
    /\ \E s \in FinishedSlots(tasks) : tasks' = [tasks EXCEPT ![s] = FreeTask]
    /\ UNCHANGED <<main, crawl_queue, log, crawlRest, pdf_queue, counters, shutdown_signal>>
    /\ UNCHANGED crFrame

\* a loop that stops on the idle window whatever is still in flight
LoopStopsOnIdleWindow(n, ts, q) == n >= NoWorkCheck

\* the sleep branch, after no_work_counter += 1: break
LoopStops(n, ts, q) ==
    \/ n >= NoWorkCheck /\ JoinSetLen(ts) = 0 /\ q = <<>>
    \/ n >= NoWorkForce

\* select!: the 500 ms of the sleep branch went by; a task or a finished
\* crawler that became ready in the same instant loses the random poll
MainSleep ==
    /\ prog = "crawl"
    /\ main.pc = "select"
    /\ LET n == main.no_work_counter + 1
       IN  main' = [main EXCEPT !.no_work_counter = n,
                                !.pc = IF LoopStops(n, tasks, crawl_queue)
                                       THEN "drain" ELSE "select"]
    /\ UNCHANGED <<tasks, crawl_queue, log, crawlRest, pdf_queue, counters, shutdown_signal>>
    /\ UNCHANGED crFrame

\* after the loop: while let Some(res) = tasks.join_next().await
MainDrain ==
    /\ prog = "crawl"
    /\ main.pc = "drain"
    /\ \E s \in FinishedSlots(tasks) : tasks' = [tasks EXCEPT ![s] = FreeTask]
    /\ UNCHANGED <<main, crawl_queue, log, crawlRest, pdf_queue, counters, shutdown_signal>>
    /\ UNCHANGED crFrame

\* the JoinSet is empty: run_recursive_crawl_with_shutdown returns
MainDone ==
    /\ prog = "crawl"
    /\ main.pc = "drain"
    /\ JoinSetLen(tasks) = 0
    /\ main' = [main EXCEPT !.pc = "done"]
    /\ UNCHANGED <<tasks, crawl_queue, log, crawlRest, pdf_queue, counters, shutdown_signal>>
    /\ UNCHANGED crFrame

\* timeout(300 s, run_recursive_crawl_with_shutdown): the future is dropped
\* and with it the JoinSet, which aborts the crawl tasks
CrawlTimeout ==
    /\ prog = "crawl"
    /\ main.pc \in {"select", "capacity", "drain"}
    /\ main' = [main EXCEPT !.pc = "done", !.held = NoTask]
    /\ tasks' = [s \in DOMAIN tasks |-> FreeTask]
    /\ shutdown_signal' = TRUE
    /\ UNCHANGED <<crawl_queue, log, crawlRest, pdf_queue, counters>>
    /\ UNCHANGED crFrame

mainRest == <<cfg, main, crawl_queue, log, shutdown_signal>>

\* process_crawl_task_optimized: limiter.until_ready() of the task's host,
\* then the GET of extract_links_optimized leaves
TaskLimiter(s) ==
    /\ prog = "crawl"
    /\ tasks[s].pc = "limiter"
    /\ limiters[tasks[s].task.url.host] > 0
    /\ limiters' = [limiters EXCEPT ![tasks[s].task.url.host] = @ - 1]
    /\ sent' = NoteRequest(sent, tasks[s].task.url.host)
    /\ tasks' = [tasks EXCEPT ![s].pc = "fetch"]
    /\ log' = LogFetch(log, tasks[s].task)
    /\ UNCHANGED <<cfg, main, crawl_queue, shutdown_signal, visited_urls, retry_tasks,
                   pdf_senders, pdf_cache, pdf_queue, counters>>
    /\ UNCHANGED crFrame

\* extract_links_optimized returns Ok(links)
TaskFetchOk(s) ==
    /\ prog = "crawl"
    /\ tasks[s].pc = "fetch"
    /\ ~AlwaysFails(cfg.graph, tasks[s].task.url)
    /\ LET links == Links(cfg.graph, tasks[s].task.url)
       IN  tasks' = IF links = <<>>
                    THEN [tasks EXCEPT ![s] = FinishedTask]
                    ELSE [tasks EXCEPT ![s].pc = "filter", ![s].links = links]
    /\ log' = [log EXCEPT !.fetch_ok = @ \cup {hash_url(tasks[s].task.url)}]
    /\ UNCHANGED <<cfg, main, crawl_queue, shutdown_signal, visited_urls, retry_tasks,
                   pdf_senders, pdf_cache, limiters, sent, pdf_queue, counters>>
    /\ UNCHANGED crFrame

\* extract_links_optimized returns Err: a retry is spawned while
\* retry_count < max_retries
TaskFetchErr(s) ==
    /\ prog = "crawl"
    /\ tasks[s].pc = "fetch"
    /\ tasks[s].task.url \in Flaky \/ AlwaysFails(cfg.graph, tasks[s].task.url)
    /\ retry_tasks' =
          IF tasks[s].task.retry_count < cfg.max_retries
          THEN Append(retry_tasks, [tasks[s].task EXCEPT !.retry_count = @ + 1])
          ELSE retry_tasks
    /\ tasks' = [tasks EXCEPT ![s] = FinishedTask]
    /\ UNCHANGED <<mainRest, visited_urls, pdf_senders, pdf_cache, limiters, sent,
                   pdf_queue, counters>>
    /\ UNCHANGED crFrame

\* the filter closure on the next link: visited_urls.insert(hash_url(link))
TaskFilter(s) ==
    /\ prog = "crawl"
    /\ tasks[s].pc = "filter"
    /\ LET link == Head(tasks[s].links)
           rest == Tail(tasks[s].links)
           hash == hash_url(link)
           unique == IF DashSetInsert(visited_urls, hash)
                     THEN Append(tasks[s].unique, link) ELSE tasks[s].unique
       IN  /\ visited_urls' = visited_urls \cup {hash}
           /\ log' = [log EXCEPT
                        !.kept = IF DashSetInsert(visited_urls, hash)
                                 THEN @ \cup {hash} ELSE @,
                        !.kept_again = IF DashSetInsert(visited_urls, hash) /\ hash \in log.kept
                                       THEN @ \cup {hash} ELSE @,
                        !.refused = IF DashSetInsert(visited_urls, hash)
                                    THEN @ ELSE @ \cup {hash}]
           /\ tasks' =
                 IF rest # <<>>
                 THEN [tasks EXCEPT ![s].links = rest, ![s].unique = unique]
                 ELSE IF unique = <<>>
                 THEN [tasks EXCEPT ![s] = FinishedTask]
                 ELSE [tasks EXCEPT ![s].pc = "check", ![s].links = <<>>,
                                    ![s].unique = unique,
                                    ![s].cls = [i \in 1..Len(unique) |-> "start"],
                                    ![s].st = [i \in 1..Len(unique) |-> ClsFresh]]
    /\ UNCHANGED <<cfg, main, crawl_queue, shutdown_signal, retry_tasks, pdf_senders,
                   pdf_cache, limiters, sent, pdf_queue, counters>>
    /\ UNCHANGED crFrame

\* a classifier of batch_check_pdf_links_optimized ends with kind for link i
ClsDone(s, i, kind) ==
    [tasks EXCEPT ![s].cls[i] = "done",
                  ![s].results = Append(@, [url |-> tasks[s].unique[i], kind |-> kind])]

\* history of classifications: the url, the verdict, the stages run, the
\* entry found in the cache at the start, the entry left there at the end
\* and what the classification added to cache_hits
LogRun(l, url, acc, cache_after, counters_after) ==
    [l EXCEPT !.runs = @ \cup {[url |-> url, kind |-> acc.kind, stages |-> acc.stages,
                                failed |-> acc.failed, found |-> acc.found,
                                left |-> cache_after[url].kind,
                                counted |-> (counters_after[4] - counters[4] + FieldMod)
                                               % FieldMod]},
              !.neg_failed = IF acc.stages[1].fired THEN @
                             ELSE IF acc.failed /\ acc.kind = "No" THEN @ \cup {url}
                             ELSE @ \ {url}]

\* the entry of url as a lookup would have to see it: its kind, its age and
\* whether it was left by a failed probe
Found(url) ==
    IF url \in DOMAIN pdf_cache /\ pdf_cache[url].age < CacheTtl
    THEN [kind |-> pdf_cache[url].kind, age |-> pdf_cache[url].age,
          failed |-> url \in log.neg_failed]
    ELSE NotFound

\* the outcomes of a probe of url: an answer, or an error or the 3 s timeout
ProbeOutcomes(url) == IF url \in Unreliable THEN {TRUE, FALSE} ELSE {TRUE}

Classifying == {"crawl", "single"}

\* is_pdf_link_optimized, stages 0-3 (cache, url patterns, clue, anchor
\* text); when they do not say Yes the HEAD request leaves
ClsStart(s, i) ==
    /\ prog \in Classifying
    /\ tasks[s].pc = "check"
    /\ i \in DOMAIN tasks[s].cls
    /\ tasks[s].cls[i] = "start"
    /\ LET url == tasks[s].unique[i]
           cached == CacheGet(pdf_cache, url)
           hit == [kind |-> cached, stages |-> <<Stage("cache", TRUE)>>, failed |-> FALSE,
                   found |-> Found(url)]
           acc == [ZeroCost(cfg.graph, url) EXCEPT !.found = Found(url)]
       IN  IF cached # Miss
           THEN /\ counters' = inc_cache_hits(counters)
                /\ tasks' = ClsDone(s, i, cached)
                /\ log' = LogRun(log, url, hit, pdf_cache, counters')
                /\ UNCHANGED <<pdf_cache, sent>>
           ELSE IF Continue(acc.kind)
           THEN /\ tasks' = [tasks EXCEPT ![s].cls[i] = "head", ![s].st[i] = acc]
                /\ sent' = NoteRequest(sent, url.host)
                /\ UNCHANGED <<counters, pdf_cache, log>>
           ELSE /\ pdf_cache' = CacheInsert(pdf_cache, url, acc.kind)
                /\ tasks' = ClsDone(s, i, acc.kind)
                /\ log' = LogRun(log, url, acc, pdf_cache', counters)
                /\ UNCHANGED <<counters, sent>>
    /\ UNCHANGED <<cfg, main, crawl_queue, shutdown_signal, visited_urls, retry_tasks,
                   pdf_senders, limiters, pdf_queue>>
    /\ UNCHANGED crFrame

\* stage 4: the HEAD answer (or its 3 s timeout); when it does not say Yes the
\* Range GET leaves
ClsHead(s, i) ==
    /\ prog \in Classifying
    /\ tasks[s].pc = "check"
    /\ i \in DOMAIN tasks[s].cls
    /\ tasks[s].cls[i] = "head"
    /\ \E ok \in ProbeOutcomes(tasks[s].unique[i]) :
          LET url == tasks[s].unique[i]
              st == [tasks[s].st[i] EXCEPT !.failed = @ \/ ~ok]
              acc == RunStage(st, "head", ok /\ HeadSaysPdf(cfg.graph, url))
          IN  IF Continue(acc.kind)
              THEN /\ tasks' = [tasks EXCEPT ![s].cls[i] = "range", ![s].st[i] = acc]
                   /\ sent' = NoteRequest(sent, url.host)
                   /\ UNCHANGED <<pdf_cache, log>>
              ELSE /\ pdf_cache' = CacheInsert(pdf_cache, url, acc.kind)
                   /\ tasks' = ClsDone(s, i, acc.kind)
                   /\ log' = LogRun(log, url, acc, pdf_cache', counters)
                   /\ UNCHANGED sent
    /\ UNCHANGED <<cfg, main, crawl_queue, shutdown_signal, visited_urls, retry_tasks,
                   pdf_senders, limiters, pdf_queue, counters>>
    /\ UNCHANGED crFrame

\* stage 5: the Range answer; the kind is cached
ClsRange(s, i) ==
    /\ prog \in Classifying
    /\ tasks[s].pc = "check"
    /\ i \in DOMAIN tasks[s].cls
    /\ tasks[s].cls[i] = "range"
    /\ \E ok \in ProbeOutcomes(tasks[s].unique[i]) :
          LET url == tasks[s].unique[i]
              st == [tasks[s].st[i] EXCEPT !.failed = @ \/ ~ok]
              acc == RunStage(st, "range", ok /\ RangeSaysPdf(cfg.graph, url))
          IN  /\ pdf_cache' = CacheInsert(pdf_cache, url, acc.kind)
              /\ tasks' = ClsDone(s, i, acc.kind)
              /\ log' = LogRun(log, url, acc, pdf_cache', counters)
    /\ UNCHANGED <<cfg, main, crawl_queue, shutdown_signal, visited_urls, retry_tasks,
                   pdf_senders, limiters, sent, pdf_queue, counters>>
    /\ UNCHANGED crFrame

\* the loop over pdf_checks, one (url, kind) at a time
TaskEmit(s) ==
    /\ prog = "crawl"
    /\ tasks[s].pc = "check"
    /\ Len(tasks[s].results) > 0
    /\ \A i \in DOMAIN tasks[s].cls : tasks[s].cls[i] = "done"
    /\ LET r == Head(tasks[s].results)
           rest == Tail(tasks[s].results)
           task == tasks[s].task
           new_task == CrawlTask(r.url, task.depth + 1, 0)
           enq == /\ r.kind # "Yes"
                  /\ SameHost(r.url, Seed.host)
                  /\ should_crawl(cfg.max_depth, task.depth)
       IN  /\ IF r.kind = "Yes"
              THEN IF Len(pdf_queue) < cfg.pdf_queue_buffer
                   THEN /\ pdf_queue' = Append(pdf_queue, r.url)
                        /\ counters' = inc_queued(counters)
                        /\ UNCHANGED pdf_senders
                   ELSE /\ pdf_senders' = Append(pdf_senders, r.url)
                        /\ UNCHANGED <<pdf_queue, counters>>
              ELSE UNCHANGED <<pdf_queue, counters, pdf_senders>>
           /\ crawl_queue' = IF enq THEN try_send(crawl_queue, new_task, cfg.crawl_queue_buffer)
                             ELSE crawl_queue
           /\ log' = [log EXCEPT
                        !.enq = IF enq THEN @ \cup {new_task} ELSE @,
                        !.depth_cut = @ \/ (/\ r.kind # "Yes"
                                            /\ SameHost(r.url, Seed.host)
                                            /\ ~should_crawl(cfg.max_depth, task.depth)),
                        !.host_cut = @ \/ (r.kind # "Yes" /\ ~SameHost(r.url, Seed.host))]
           /\ tasks' = IF rest = <<>> THEN [tasks EXCEPT ![s] = FinishedTask]
                       ELSE [tasks EXCEPT ![s].results = rest]
    /\ UNCHANGED <<cfg, main, shutdown_signal, visited_urls, retry_tasks, pdf_cache,
                   limiters, sent>>
    /\ UNCHANGED crFrame

Remove(q, i) == SubSeq(q, 1, i - 1) \o SubSeq(q, i + 1, Len(q))

\* a retry task, after its 500 ms: crawl_tx.send(retry_task) goes through
RetrySend ==
    /\ prog = "crawl"
    /\ main.pc # "done"
    /\ Len(crawl_queue) < cfg.crawl_queue_buffer
    /\ \E i \in DOMAIN retry_tasks :
          /\ crawl_queue' = Append(crawl_queue, retry_tasks[i])
          /\ retry_tasks' = Remove(retry_tasks, i)
    /\ UNCHANGED <<cfg, main, log, shutdown_signal, visited_urls, tasks, pdf_senders,
                   pdf_cache, limiters, sent, pdf_queue, counters>>
    /\ UNCHANGED crFrame

\* a retry task gives up: the channel stayed full for 1 s, or crawl_rx is gone
RetryGiveUp ==
    /\ prog = "crawl"
    /\ main.pc = "done" \/ Len(crawl_queue) >= cfg.crawl_queue_buffer
    /\ \E i \in DOMAIN retry_tasks : retry_tasks' = Remove(retry_tasks, i)
    /\ UNCHANGED <<cfg, main, crawl_queue, log, shutdown_signal, visited_urls, tasks,
                   pdf_senders, pdf_cache, limiters, sent, pdf_queue, counters>>
    /\ UNCHANGED crFrame

\* one replenish interval (1 / host_rate_limit second) goes by
Tick ==
    /\ prog = "crawl"
    /\ limiters' = [h \in DOMAIN limiters |-> Min(cfg.host_rate_limit, limiters[h] + 1)]
    /\ sent' = [h \in DOMAIN sent |->
                   LET aged == [i \in 1..Len(sent[h]) |-> sent[h][i] + 1]
                   IN  SelectSeq(aged, LAMBDA a : a < cfg.host_rate_limit)]
    /\ UNCHANGED <<mainRest, visited_urls, tasks, retry_tasks, pdf_senders, pdf_cache,
                   pdf_queue, counters>>
    /\ UNCHANGED crFrame

\* a detached sender: pdf_tx.send(url) goes through; queued is not incremented
PdfSenderSend ==
    /\ prog = "crawl"
    /\ Len(pdf_queue) < cfg.pdf_queue_buffer
    /\ \E i \in DOMAIN pdf_senders :
          /\ pdf_queue' = Append(pdf_queue, pdf_senders[i])
          /\ pdf_senders' = Remove(pdf_senders, i)
    /\ UNCHANGED <<mainRest, visited_urls, tasks, retry_tasks, pdf_cache, limiters, sent,
                   counters>>
    /\ UNCHANGED crFrame

\* the download task takes the next url from pdf_rx: dec_queued, and the GET
\* of download_pdf_with_validation leaves (its steps on the file system are
\* those of the program "download")
CrDlRecv ==
    /\ prog \in Classifying
    /\ dl.pc = "idle"
    /\ pdf_queue # <<>>
    /\ ~shutdown_signal
    /\ dl' = [dl EXCEPT !.pc = "send", !.url = Head(pdf_queue)]
    /\ pdf_queue' = Tail(pdf_queue)
    /\ counters' = dec_queued(counters)
    /\ sent' = NoteRequest(sent, Head(pdf_queue).host)
    /\ UNCHANGED <<mainRest, visited_urls, tasks, retry_tasks, pdf_senders, pdf_cache,
                   limiters>>
    /\ UNCHANGED <<prog, fcall, stats, jVars, files, pdf_closed, resume, run, seed_list, committed>>

\* the download ends: Ok(Ok(())), or an error or the download_timeout
CrDlDone ==
    /\ prog \in Classifying
    /\ dl.pc = "send"
    /\ \E ok \in BOOLEAN :
          /\ counters' = IF ok THEN inc_downloaded(counters) ELSE inc_failed(counters)
          /\ dl' = [dl EXCEPT !.pc = "idle", !.url = NoUrl,
                              !.outcome = IF ok THEN "ok" ELSE "err",
                              !.downloaded_count = IF ok THEN @ + 1 ELSE @]
    /\ UNCHANGED <<mainRest, visited_urls, tasks, retry_tasks, pdf_senders, pdf_cache,
                   limiters, sent, pdf_queue>>
    /\ UNCHANGED <<prog, fcall, stats, jVars, files, pdf_closed, resume, run, seed_list, committed>>

EmptyLog == [first |-> {}, again |-> {}, retried |-> {}, depths |-> {}, kept |-> {},
             kept_again |-> {}, refused |-> {}, enq |-> {}, depth_cut |-> FALSE,
             host_cut |-> FALSE, attempts |-> <<>>, fetch_ok |-> {}, max_rc |-> 0,
             runs |-> {}, neg_failed |-> {}]

\* crawl_and_download with recursive = true, up to the first select!, under
\* one of the configurations cs
InitCrawlOn(cs) ==
    /\ prog = "crawl"
    /\ fcall = <<>>
    /\ stats = <<>>
    /\ IdleJournal
    /\ files = <<>> /\ resume = FALSE /\ run = 0 /\ seed_list = <<>>
    /\ committed = {} /\ pdf_closed = FALSE
    /\ dl = DlFresh
    /\ pdf_queue = <<>>
    /\ counters = <<0, 0, 0, 0>>
    /\ shutdown_signal = FALSE
    /\ cfg \in cs
    /\ crawl_queue = <<CrawlTask(Seed, 0, 0)>>
    /\ visited_urls = {hash_url(Seed)}
    /\ tasks = [s \in 1..cfg.concurrent_crawlers |-> FreeTask]
    /\ main = [pc |-> "select", no_work_counter |-> 0, held |-> NoTask]
    /\ retry_tasks = <<>>
    /\ pdf_senders = <<>>
    /\ pdf_cache = <<>>
    /\ limiters = [h \in Hosts |-> cfg.host_rate_limit]
    /\ sent = [h \in Hosts |-> <<>>]
    /\ log = [EmptyLog EXCEPT !.kept = {hash_url(Seed)}]

InitCrawl == InitCrawlOn(Configs)

NextCrawl ==
    \/ MainRecv
    \/ MainCapacityJoin
    \/ MainJoin
    \/ MainSleep
    \/ MainDrain
    \/ MainDone
    \/ CrawlTimeout
    \/ \E s \in DOMAIN tasks : TaskLimiter(s)
    \/ \E s \in DOMAIN tasks : TaskFetchOk(s)
    \/ \E s \in DOMAIN tasks : TaskFetchErr(s)
    \/ \E s \in DOMAIN tasks : TaskFilter(s)
    \/ \E s \in DOMAIN tasks : \E i \in 1..2 : ClsStart(s, i)
    \/ \E s \in DOMAIN tasks : \E i \in 1..2 : ClsHead(s, i)
    \/ \E s \in DOMAIN tasks : \E i \in 1..2 : ClsRange(s, i)
    \/ \E s \in DOMAIN tasks : TaskEmit(s)
    \/ RetrySend
    \/ RetryGiveUp
    \/ PdfSenderSend
    \/ CrDlRecv
    \/ CrDlDone
    \/ Tick

SpecCrawl == InitCrawl /\ [][NextCrawl]_vars

----------------------------------------------------------------------------
(* pdf_downloader: crawl_and_download with recursive = false, called on one  *)
(* ParallelPDFCrawler again and again.  The pdf_cache and the counters live  *)
(* in the crawler; the channel, the download task and the JoinSet of         *)
(* classifiers are made anew by every call.  run counts the calls.           *)

\* the seconds between the end of a call and the next call
Gaps == {0, NegativeCacheTtl, CacheTtl}

SingleConfigs == {Config(None, 1, 1, 1, 0, g) : g \in SingleGraphs \cup {"dead"}}

spFrame == <<prog, fcall, stats, jVars, files, pdf_closed, resume, seed_list, committed>>

spRest == <<cfg, crawl_queue, visited_urls, retry_tasks, pdf_senders, limiters,
            shutdown_signal>>

\* crawl_and_download(start_url, false, None), d seconds after the last call:
\* the download task is spawned and the GET of the start page leaves
SpCall(d) ==
    /\ prog = "single"
    /\ main.pc = "idle"
    /\ run < MaxRuns
    /\ run = 0 => d = 0
    /\ run' = run + 1
    /\ main' = [main EXCEPT !.pc = "running"]
    /\ pdf_cache' = CacheAge(pdf_cache, d)
    /\ tasks' = <<[FreeTask EXCEPT !.pc = "fetch", !.task = CrawlTask(Seed, 0, 0)]>>
    /\ sent' = NoteRequest(sent, Seed.host)
    /\ dl' = DlFresh
    /\ UNCHANGED <<spRest, pdf_queue, counters, log>>
    /\ UNCHANGED spFrame

\* run_single_page_crawl_optimized: extract_links_optimized returns the links
\* and batch_check_pdf_links_optimized spawns a classifier for each
SpFetchOk ==
    /\ prog = "single"
    /\ tasks[1].pc = "fetch"
    /\ ~AlwaysFails(cfg.graph, tasks[1].task.url)
    /\ LET links == Links(cfg.graph, tasks[1].task.url)
       IN  tasks' = IF links = <<>>
                    THEN [tasks EXCEPT ![1] = FinishedTask]
                    ELSE [tasks EXCEPT ![1].pc = "check", ![1].unique = links,
                                       ![1].cls = [i \in 1..Len(links) |-> "start"],
                                       ![1].st = [i \in 1..Len(links) |-> ClsFresh]]
    /\ UNCHANGED <<spRest, main, pdf_cache, sent, pdf_queue, counters, log, dl, run>>
    /\ UNCHANGED spFrame

\* extract_links_optimized returns Err: return Ok(())
SpFetchErr ==
    /\ prog = "single"
    /\ tasks[1].pc = "fetch"
    /\ tasks[1].task.url \in Flaky \/ AlwaysFails(cfg.graph, tasks[1].task.url)
    /\ tasks' = [tasks EXCEPT ![1] = FinishedTask]
    /\ UNCHANGED <<spRest, main, pdf_cache, sent, pdf_queue, counters, log, dl, run>>
    /\ UNCHANGED spFrame

\* the loop over the Yes results: pdf_tx.send(url).await, then inc_queued
SpEmit ==
    /\ prog = "single"
    /\ tasks[1].pc = "check"
    /\ tasks[1].results # <<>>
    /\ \A i \in DOMAIN tasks[1].cls : tasks[1].cls[i] = "done"
    /\ LET r == Head(tasks[1].results)
           rest == Tail(tasks[1].results)
       IN  /\ IF r.kind = "Yes"
              THEN /\ Len(pdf_queue) < cfg.pdf_queue_buffer
                   /\ pdf_queue' = Append(pdf_queue, r.url)
                   /\ counters' = inc_queued(counters)
              ELSE UNCHANGED <<pdf_queue, counters>>
           /\ tasks' = IF rest = <<>> THEN [tasks EXCEPT ![1] = FinishedTask]
                       ELSE [tasks EXCEPT ![1].results = rest]
    /\ UNCHANGED <<spRest, main, pdf_cache, sent, log, dl, run>>
    /\ UNCHANGED spFrame

\* drop(pdf_tx), the download task ends on the closed channel and
\* crawl_and_download returns
SpReturn ==
    /\ prog = "single"
    /\ main.pc = "running"
    /\ tasks[1].pc = "finished"
    /\ pdf_queue = <<>>
    /\ dl.pc = "idle"
    /\ main' = [main EXCEPT !.pc = "idle"]
    /\ tasks' = <<FreeTask>>
    /\ UNCHANGED <<spRest, pdf_cache, sent, pdf_queue, counters, log, dl, run>>
    /\ UNCHANGED spFrame

\* ParallelPDFCrawler::new, before the first call
InitSingle ==
    /\ prog = "single"
    /\ fcall = <<>>
    /\ stats = <<>>
    /\ IdleJournal
    /\ files = <<>> /\ resume = FALSE /\ run = 0 /\ seed_list = <<>>
    /\ committed = {} /\ pdf_closed = FALSE
    /\ dl = DlFresh
    /\ pdf_queue = <<>>
    /\ counters = <<0, 0, 0, 0>>
    /\ shutdown_signal = FALSE
    /\ cfg \in SingleConfigs
    /\ crawl_queue = <<>>
    /\ visited_urls = {}
    /\ tasks = <<FreeTask>>
    /\ main = [pc |-> "idle", no_work_counter |-> 0, held |-> NoTask]
    /\ retry_tasks = <<>>
    /\ pdf_senders = <<>>
    /\ pdf_cache = <<>>
    /\ limiters = [h \in Hosts |-> cfg.host_rate_limit]
    /\ sent = [h \in Hosts |-> <<>>]
    /\ log = EmptyLog

NextSingle ==
    \/ \E d \in Gaps : SpCall(d)
    \/ SpFetchOk
    \/ SpFetchErr
    \/ \E i \in 1..3 : ClsStart(1, i)
    \/ \E i \in 1..3 : ClsHead(1, i)
    \/ \E i \in 1..3 : ClsRange(1, i)
    \/ SpEmit
    \/ SpReturn
    \/ CrDlRecv
    \/ CrDlDone

SpecSingle == InitSingle /\ [][NextSingle]_vars

----------------------------------------------------------------------------
(* web_crawler_pdf/main.rs: Crawler::crawl, a sequential breadth-first loop. *)
(* The messages it sends to the writer are those of the program "journal".  *)

\* Crawler::is_likely_pdf_url: the lowercased url ends with ".pdf"
is_likely_pdf_url(u) == u.path # <<>> /\ LowerTok(Last(u.path)) = ".pdf"

\* the variables of pdf_downloader's crawl that this loop does not have
seqFrame == <<prog, fcall, stats, dlVars, jVars, retry_tasks, pdf_senders, pdf_cache, limiters, sent>>

BfsConfigs == {[max_depth |-> d, graph |-> g] : d \in 0..2, g \in Graphs}

\* extract_and_verify_pdfs, the loop over the anchors: the same-host links
\* that are not taken for PDFs
SameSiteLinks(links, base_url) ==
    SelectSeq(links, LAMBDA l : ~is_likely_pdf_url(l) /\ l.host = base_url.host)

\* the anchors taken for PDFs
PotentialPdfs(links) == {links[i] : i \in {j \in DOMAIN links : is_likely_pdf_url(links[j])}}

\* for link in links { if !visited.contains(&link) { queue.push_back((link, depth + 1)) } }
RECURSIVE PushLinks(_, _, _, _)
PushLinks(q, links, depth, visited) ==
    IF links = <<>> THEN q
    ELSE PushLinks(IF as_str(Head(links)) \in visited THEN q
                   ELSE Append(q, CrawlTask(Head(links), depth + 1, 0)),
                   Tail(links), depth, visited)

\* queue.pop_front() and the three skips; otherwise visited.insert and the
\* fetch of the page leaves
BfsPop ==
    /\ prog = "bfs"
    /\ main.pc = "pop"
    /\ crawl_queue # <<>>
    /\ crawl_queue' = Tail(crawl_queue)
    /\ LET cur == Head(crawl_queue)
       IN  \E allowed \in BOOLEAN :
              IF \/ cur.depth > cfg.max_depth
                 \/ as_str(cur.url) \in visited_urls
                 \/ ~allowed
              THEN UNCHANGED <<main, visited_urls, log>>
              ELSE /\ visited_urls' = visited_urls \cup {as_str(cur.url)}
                   /\ main' = [main EXCEPT !.pc = "fetch", !.cur = cur]
                   /\ log' = LogDispatch(log, cur)
    /\ UNCHANGED <<cfg, tasks, shutdown_signal, seqFrame>>

\* fetch_page returns Ok(html): the links are extracted and, below max_depth,
\* pushed at depth + 1
BfsFetchOk ==
    /\ prog = "bfs"
    /\ main.pc = "fetch"
    /\ LET all == Links(cfg.graph, main.cur.url)
           links == SameSiteLinks(all, main.cur.url)
           push == main.cur.depth < cfg.max_depth
           q == IF push THEN PushLinks(crawl_queue, links, main.cur.depth, visited_urls)
                ELSE crawl_queue
       IN  /\ crawl_queue' = q
           /\ main' = [main EXCEPT !.pc = "pop", !.cur = NoTask,
                                   !.pages_crawled = @ + 1,
                                   !.discovered_pdfs = @ \cup PotentialPdfs(all)]
           /\ log' = [log EXCEPT
                        !.enq = @ \cup {q[i] : i \in Len(crawl_queue) + 1..Len(q)},
                        !.depth_cut = @ \/ (~push /\ links # <<>>),
                        !.host_cut = @ \/ (\E i \in DOMAIN all :
                                              /\ ~is_likely_pdf_url(all[i])
                                              /\ all[i].host # main.cur.url.host)]
    /\ UNCHANGED <<cfg, visited_urls, tasks, shutdown_signal, seqFrame>>

\* fetch_page returns Err
BfsFetchErr ==
    /\ prog = "bfs"
    /\ main.pc = "fetch"
    /\ main' = [main EXCEPT !.pc = "pop", !.cur = NoTask]
    /\ UNCHANGED <<cfg, crawl_queue, visited_urls, tasks, log, shutdown_signal, seqFrame>>

\* the queue is empty: the loop ends
BfsDone ==
    /\ prog = "bfs"
    /\ main.pc = "pop"
    /\ crawl_queue = <<>>
    /\ main' = [main EXCEPT !.pc = "done"]
    /\ UNCHANGED <<cfg, crawl_queue, visited_urls, tasks, log, shutdown_signal, seqFrame>>

InitBfs ==
    /\ prog = "bfs"
    /\ fcall = <<>>
    /\ stats = <<>>
    /\ IdleDownload
    /\ IdleJournal
    /\ cfg \in BfsConfigs
    /\ crawl_queue = <<CrawlTask(Seed, 0, 0)>>
    /\ visited_urls = {}
    /\ tasks = <<>>
    /\ main = [pc |-> "pop", cur |-> NoTask, pages_crawled |-> 0, discovered_pdfs |-> {}]
    /\ retry_tasks = <<>>
    /\ pdf_senders = <<>>
    /\ pdf_cache = <<>>
    /\ limiters = <<>>
    /\ sent = <<>>
    /\ log = EmptyLog

NextBfs ==
    \/ BfsPop
    \/ BfsFetchOk
    \/ BfsFetchErr
    \/ BfsDone

----------------------------------------------------------------------------
(* hydra_mt/examples/recursive_crawler: recursive_crawl.  The invocations   *)
(* made by into_par_iter run in parallel: crawl_queue holds those not yet   *)
(* entered, tasks those whose page is being fetched.                        *)

RecConfigs ==
    {[max_depth |-> d, graph |-> g, allow_external |-> x] :
        d \in 0..2, g \in Graphs, x \in BOOLEAN}

\* hosts that are IP addresses
IpHosts == {"10.0.0.1", "10.0.0.2"}

\* Url::domain: the host when there is one and it is a domain name, not an
\* IP address; HasDomain is is_some() of it
HasDomain(u) == u.host # "" /\ u.host \notin IpHosts
domain(u) == u.host

\* a rule that compares hosts and looks at nothing else
RecSameHostOnly(base_url, target_url, config) ==
    config.allow_external \/ base_url.host = target_url.host

\* should_crawl(base_url, target_url, config) of recursive_crawler
RecShouldCrawl(base_url, target_url, config) ==
    IF scheme(target_url) # "http" /\ scheme(target_url) # "https"
    THEN FALSE
    ELSE IF ~config.allow_external
         THEN IF HasDomain(base_url) /\ HasDomain(target_url)
              THEN domain(base_url) = domain(target_url)
              ELSE FALSE
         ELSE TRUE

\* the links of one page, in the order the parallel iterator inserts them:
\* each new url becomes an invocation at current_depth + 1
RECURSIVE RecLinks(_, _, _, _)
RecLinks(st, links, url, current_depth) ==
    IF links = <<>> THEN st
    ELSE LET new_url == Head(links)
             is_new == /\ RecShouldCrawl(url, new_url, cfg)
                       /\ as_str(new_url) \notin st.crawled
         IN  RecLinks([crawled |-> IF RecShouldCrawl(url, new_url, cfg)
                                   THEN st.crawled \cup {as_str(new_url)} ELSE st.crawled,
                       calls |-> IF is_new
                                 THEN Append(st.calls, CrawlTask(new_url, current_depth + 1, 0))
                                 ELSE st.calls],
                      Tail(links), url, current_depth)

\* an invocation is entered: the depth check, then the GET leaves
RecEnter ==
    /\ prog = "rec"
    /\ \E i \in DOMAIN crawl_queue :
          LET call == crawl_queue[i]
          IN  /\ crawl_queue' = Remove(crawl_queue, i)
              /\ IF call.depth > cfg.max_depth
                 THEN UNCHANGED <<tasks, log>>
                 ELSE /\ tasks' = Append(tasks, call)
                      /\ log' = LogDispatch(log, call)
    /\ UNCHANGED <<cfg, visited_urls, main, shutdown_signal, seqFrame>>

\* the page arrives and its links are processed
RecFetchOk ==
    /\ prog = "rec"
    /\ \E i \in DOMAIN tasks :
          LET call == tasks[i]
              st == RecLinks([crawled |-> visited_urls, calls |-> crawl_queue],
                             Links(cfg.graph, call.url), call.url, call.depth)
          IN  /\ tasks' = Remove(tasks, i)
              /\ visited_urls' = st.crawled
              /\ crawl_queue' = st.calls
              /\ log' = [log EXCEPT
                           !.enq = @ \cup {st.calls[j] : j \in Len(crawl_queue) + 1..Len(st.calls)}]
    /\ UNCHANGED <<cfg, main, shutdown_signal, seqFrame>>

\* the GET fails, or the answer is not a success, or it does not parse
RecFetchErr ==
    /\ prog = "rec"
    /\ \E i \in DOMAIN tasks : tasks' = Remove(tasks, i)
    /\ UNCHANGED <<cfg, crawl_queue, visited_urls, main, log, shutdown_signal, seqFrame>>

InitRec ==
    /\ prog = "rec"
    /\ fcall = <<>>
    /\ stats = <<>>
    /\ IdleDownload
    /\ IdleJournal
    /\ cfg \in RecConfigs
    /\ crawl_queue = <<CrawlTask(Seed, 0, 0)>>
    /\ visited_urls = {as_str(Seed)}
    /\ tasks = <<>>
    /\ main = <<>>
    /\ retry_tasks = <<>>
    /\ pdf_senders = <<>>
    /\ pdf_cache = <<>>
    /\ limiters = <<>>
    /\ sent = <<>>
    /\ log = EmptyLog

NextRec ==
    \/ RecEnter
    \/ RecFetchOk
    \/ RecFetchErr

\* the three crawlers of the repository
SpecCrawlers ==
    (InitCrawl \/ InitBfs \/ InitRec) /\ [][NextCrawl \/ NextBfs \/ NextRec]_vars

----------------------------------------------------------------------------
(* Claims about the crawlers *)

Crawlers == {"crawl", "bfs", "rec"}

\* C1: in the recursive crawl of ParallelPDFCrawler no identity is dispatched
\* as a non-retry fetch twice, under any interleaving of the crawl tasks: of
\* the tasks that insert the same identity into visited_urls exactly one keeps
\* the link, an insert is refused only for an identity somebody kept, and an
\* identity is only ever fetched again as a retry of a task dispatched before.
C1_OneFirstDispatchPerIdentity ==
    prog = "crawl" =>
        /\ log.again = {}
        /\ log.kept_again = {}
        /\ log.refused \subseteq log.kept
        /\ log.first \subseteq log.kept
        /\ log.retried \subseteq log.first

\* one crawl task holds a link it kept while the insert of the same identity
\* by another task was refused
C1_Witness ==
    /\ prog = "crawl"
    /\ \E s \in DOMAIN tasks :
          /\ tasks[s].pc = "check"
          /\ hash_url(tasks[s].unique[1]) \in log.refused
          /\ hash_url(tasks[s].unique[1]) # hash_url(Seed)
          /\ \E s2 \in DOMAIN tasks \ {s} : tasks[s2].pc = "finished"

\* C7: for every host, the requests sent to it within one second (page GETs,
\* HEAD probes, Range GETs and download GETs together) number at most
\* host_rate_limit.
C7_HostRateLimitRespected ==
    prog = "crawl" => \A h \in Hosts : Len(sent[h]) <= cfg.host_rate_limit

\* the outbound network calls in flight: page fetches, HEAD and Range probes,
\* and the GET of the download task
NetInFlight ==
    Cardinality({s \in DOMAIN tasks : tasks[s].pc = "fetch"})
        + Cardinality({<<s, i>> \in (DOMAIN tasks) \X (1..2) :
                          /\ tasks[s].pc = "check"
                          /\ i \in DOMAIN tasks[s].cls
                          /\ tasks[s].cls[i] \in {"head", "range"}})
        + (IF dl.pc = "send" THEN 1 ELSE 0)

\* C8: at every instant the network calls in flight number at most
\* global_socket_limit.
C8_InFlightWithinSocketLimit ==
    prog = "crawl" => NetInFlight <= cfg.global_socket_limit

\* C9: in each of the three crawlers no task deeper than max_depth is
\* dispatched to a page fetch; in the two that test the depth of a link before
\* they enqueue it, no task deeper than max_depth is enqueued either.
C9_DepthBound ==
    (prog \in Crawlers /\ cfg.max_depth # None) =>
        /\ \A d \in log.depths : d <= cfg.max_depth
        /\ prog \in {"crawl", "bfs"} => \A t \in log.enq : t.depth <= cfg.max_depth

\* tasks were dispatched at two depths at least and a same-host link was
\* held back by the depth test
C9_Witness ==
    /\ prog = "crawl"
    /\ cfg.max_depth # None
    /\ log.depth_cut
    /\ Cardinality(log.depths) >= 2

\* C10: every task enqueued after the seed has the host of the start url.
C10_EnqueuedOnStartHost ==
    prog \in {"crawl", "bfs"} => \A t \in log.enq : t.url.host = Seed.host

\* a link to another host went through classification, was classified No and
\* was dropped, while same-host links were enqueued
C10_Witness ==
    /\ prog = "crawl"
    /\ log.host_cut
    /\ Ext \in DOMAIN pdf_cache
    /\ log.enq # {}

\* the crawl has ended without the 300 s timeout and no retry is pending
CrawlEndedNormally ==
    /\ prog = "crawl"
    /\ main.pc = "done"
    /\ ~shutdown_signal
    /\ retry_tasks = <<>>

\* C11: a page whose fetch fails every time has been attempted
\* max_retries + 1 times when the crawl has ended, every failure below
\* max_retries being enqueued again, and no task is fetched with a
\* retry_count above max_retries.
C11_FailingPageAttemptedFully ==
    /\ prog = "crawl" => log.max_rc <= cfg.max_retries
    /\ CrawlEndedNormally =>
          \A h \in DOMAIN log.attempts :
             h \notin log.fetch_ok => log.attempts[h] = cfg.max_retries + 1

\* C12: the frontier loses no task and returns none twice: when the crawl has
\* ended, every task that was handed to the crawl queue after its identity
\* entered visited_urls has been dispatched, and none was dispatched twice.
C12_FrontierLosesNoTask ==
    /\ prog = "crawl" => log.again = {}
    /\ CrawlEndedNormally => \A t \in log.enq : hash_url(t.url) \in log.first

\* a classification answered by the cache
IsHit(r) == r.stages = <<Stage("cache", TRUE)>>

C14_FailedProbeCachedUnderNegativeTtl ==
    prog \in Classifying =>
       \A r \in log.runs :
          (r.found.kind = "No" /\ r.found.failed) => r.found.age < NegativeCacheTtl

StageOrder == <<"cache", "pattern", "clue", "anchor", "head", "range">>

\* C15: a classification that misses the cache runs the stages in the order
\* url pattern, clue, anchor text, HEAD, Range GET and stops behind the first
\* stage that says Yes; its kind is No exactly when all five stages ran and
\* none fired; the kind it returns is the one the cache holds for the url.
C15_StagesInOrderFirstYesEnds ==
    prog \in Classifying =>
       \A r \in log.runs :
          LET n == Len(r.stages)
          IN  /\ \A i \in 1..n : r.stages[i].stage = StageOrder[i]
              /\ \A i \in 1..(n - 1) : ~r.stages[i].fired
              /\ r.left = r.kind
              /\ ~IsHit(r) =>
                    /\ n >= 2
                    /\ r.stages[2].fired = UrlPattern(r.url)
                    /\ n >= 3 => r.stages[3].fired = UrlClue(r.url)
                    /\ n >= 4 => r.stages[4].fired = AnchorMatch(cfg.graph, r.url)
                    /\ r.kind = "Yes" <=> r.stages[n].fired
                    /\ r.kind = "No" <=> (n = Len(StageOrder) /\ ~r.stages[n].fired)

\* one batch held a Yes of HEAD, a Yes of the Range GET and a No
C15_Witness ==
    /\ prog = "single"
    /\ \E r \in log.runs : Len(r.stages) = 5 /\ r.kind = "Yes"
    /\ \E r \in log.runs : Len(r.stages) = 6 /\ r.kind = "Yes"
    /\ \E r \in log.runs : Len(r.stages) = 6 /\ r.kind = "No"

----------------------------------------------------------------------------
(* hydra_mt/examples/async_advanced: crawl and crawl_worker.  crawl_queue is *)
(* urls_to_crawl, visited_urls is crawled_urls (the url strings), tasks are  *)
(* the workers of the current batch, main is the loop of crawl.              *)
(* A usize is kept as the integer of least absolute value congruent to it    *)
(* modulo 2^64: a negative number stands for a value just below 2^64.        *)

\* the constants of async_advanced, scaled down (5, 20, 10, 10 and 10000 in
\* the source)
MIN_WORKERS == 1
MAX_WORKERS == 3
DEFAULT_WORKERS == 2
ERROR_THRESHOLD == 2
MAX_PAGES_PER_DOMAIN == 3

\* the failed fetches a behaviour may count
MaxErrors == 3

\* a >= b and a > b on usize, b a small constant
UGe(a, b) == a < 0 \/ a >= b
UGt(a, b) == a < 0 \/ a > b

\* isize::clamp
clamp(x, lo, hi) == IF x < lo THEN lo ELSE IF x > hi THEN hi ELSE x

\* CrawlStats::new
CrawlStatsNew(initial_workers) ==
    [pages_crawled |-> 0, errors |-> 0, active_workers |-> initial_workers]

\* CrawlStats::adjust_workers
CrawlStats_adjust_workers(st, delta) ==
    [st EXCEPT !.active_workers = clamp(@ + delta, MIN_WORKERS, MAX_WORKERS)]

\* the scaling step of webcrawler/main.rs put in the place of adjust_workers:
\* no halving of the threshold
AdjustNoHalf(st) ==
    IF UGe(st.errors, ERROR_THRESHOLD) /\ st.active_workers > MIN_WORKERS
    THEN CrawlStats_adjust_workers(st, 0 - 1)
    ELSE IF ~UGe(st.errors, ERROR_THRESHOLD) /\ st.active_workers < MAX_WORKERS
    THEN CrawlStats_adjust_workers(st, 1)
    ELSE st

\* adjust_workers(&stats)
adjust_workers(st) ==
    IF UGe(st.errors, ERROR_THRESHOLD) /\ st.active_workers > MIN_WORKERS
    THEN CrawlStats_adjust_workers(st, 0 - 1)
    ELSE IF ~UGe(st.errors, ERROR_THRESHOLD \div 2) /\ st.active_workers < MAX_WORKERS
    THEN CrawlStats_adjust_workers(st, 1)
    ELSE st

\* CrawlStats::decrement_errors: errors.fetch_sub(1), which wraps below 0
decrement_errors(e) == e - 1

\* CrawlConfig and the site; the page of "dup" holds the same link twice
PoolConfigs ==
    {[graph |-> g, excluded_domains |-> ex, max_pages |-> MAX_PAGES_PER_DOMAIN] :
        g \in Graphs \cup {"dup"}, ex \in {{}, {"b"}}}

Worker(pc, url) == [pc |-> pc, url |-> url]

\* extract_urls: the links whose domain is not excluded
extract_urls(g, u, excluded) ==
    SelectSeq(Links(g, u), LAMBDA l : l.host \notin excluded)

WorkersDone == \A w \in DOMAIN tasks : tasks[w].pc = "finished"

poolFrame == <<prog, fcall, dlVars, jVars, retry_tasks, pdf_senders, pdf_cache, limiters, sent>>

\* crawl, the head of the loop: the two exits, or a batch of stats.workers()
\* workers is spawned
AdvSpawn ==
    /\ prog = "adv"
    /\ main.pc = "top"
    /\ IF \/ UGe(stats.pages_crawled, cfg.max_pages)
          \/ crawl_queue = <<>> /\ UGt(stats.pages_crawled, 0)
       THEN /\ main' = [main EXCEPT !.pc = "done"]
            /\ UNCHANGED <<tasks, log>>
       ELSE /\ main' = [main EXCEPT !.pc = "join"]
            /\ tasks' = [w \in 1..stats.active_workers |-> Worker("loop", NoUrl)]
            /\ log' = [log EXCEPT !.batches = Append(@, stats.active_workers)]
    /\ UNCHANGED <<cfg, crawl_queue, visited_urls, stats, poolFrame>>

\* crawl_worker, the head of the loop: the exit on max_pages, or pop_front
\* (on None the worker sleeps 100 ms and comes back here)
AdvPop(w) ==
    /\ prog = "adv"
    /\ tasks[w].pc = "loop"
    /\ IF UGe(stats.pages_crawled, cfg.max_pages)
       THEN /\ tasks' = [tasks EXCEPT ![w] = Worker("finished", NoUrl)]
            /\ UNCHANGED crawl_queue
       ELSE /\ crawl_queue # <<>>
            /\ tasks' = [tasks EXCEPT ![w] = Worker("check", Head(crawl_queue))]
            /\ crawl_queue' = Tail(crawl_queue)
    /\ UNCHANGED <<cfg, visited_urls, main, log, stats, poolFrame>>

\* crawled.contains(&url_str) under the read lock, then the excluded domains
AdvCheck(w) ==
    /\ prog = "adv"
    /\ tasks[w].pc = "check"
    /\ tasks' = IF \/ as_str(tasks[w].url) \in visited_urls
                   \/ tasks[w].url.host \in cfg.excluded_domains
                THEN [tasks EXCEPT ![w] = Worker("loop", NoUrl)]
                ELSE [tasks EXCEPT ![w].pc = "mark"]
    /\ UNCHANGED <<cfg, crawl_queue, visited_urls, main, log, stats, poolFrame>>

\* crawled.insert(url_str) under the write lock; the GET leaves
AdvMark(w) ==
    /\ prog = "adv"
    /\ tasks[w].pc = "mark"
    /\ visited_urls' = visited_urls \cup {as_str(tasks[w].url)}
    /\ tasks' = [tasks EXCEPT ![w].pc = "fetch"]
    /\ UNCHANGED <<cfg, crawl_queue, main, log, stats, poolFrame>>

\* fetch_and_process_url returns Ok(new_urls): they are pushed, the url is
\* written to the file, increment_pages, and errors is loaded for the test
\* errors() > 0
AdvFetchOk(w) ==
    /\ prog = "adv"
    /\ tasks[w].pc = "fetch"
    /\ crawl_queue' =
          crawl_queue \o extract_urls(cfg.graph, tasks[w].url, cfg.excluded_domains)
    /\ stats' = [stats EXCEPT !.pages_crawled = @ + 1]
    /\ log' = [log EXCEPT !.written = Append(@, tasks[w].url)]
    /\ tasks' = IF UGt(stats.errors, 0)
                THEN [tasks EXCEPT ![w].pc = "dec"]
                ELSE [tasks EXCEPT ![w] = Worker("loop", NoUrl)]
    /\ UNCHANGED <<cfg, visited_urls, main, poolFrame>>

\* stats.decrement_errors(), after the test
AdvDecErrors(w) ==
    /\ prog = "adv"
    /\ tasks[w].pc = "dec"
    /\ stats' = [stats EXCEPT !.errors = decrement_errors(@)]
    /\ tasks' = [tasks EXCEPT ![w] = Worker("loop", NoUrl)]
    /\ UNCHANGED <<cfg, crawl_queue, visited_urls, main, log, poolFrame>>

\* fetch_and_process_url returns Err: increment_errors and the url is queued
\* again
AdvFetchErr(w) ==
    /\ prog = "adv"
    /\ tasks[w].pc = "fetch"
    /\ tasks[w].url \in Flaky
    /\ stats.errors < MaxErrors
    /\ stats' = [stats EXCEPT !.errors = @ + 1]
    /\ crawl_queue' = Append(crawl_queue, tasks[w].url)
    /\ log' = [log EXCEPT !.requeued = @ \cup {tasks[w].url}]
    /\ tasks' = [tasks EXCEPT ![w] = Worker("loop", NoUrl)]
    /\ UNCHANGED <<cfg, visited_urls, main, poolFrame>>

\* every handle of the batch has been awaited: adjust_workers(&stats), the
\* 500 ms sleep, and back to the head of the loop
AdvAdjust ==
    /\ prog = "adv"
    /\ main.pc = "join"
    /\ WorkersDone
    /\ stats' = adjust_workers(stats)
    /\ log' = [log EXCEPT !.adjusted = Append(@, [before |-> stats,
                                                  after |-> adjust_workers(stats)])]
    /\ main' = [main EXCEPT !.pc = "top"]
    /\ tasks' = <<>>
    /\ UNCHANGED <<cfg, crawl_queue, visited_urls, poolFrame>>

\* history: the sizes of the batches, the scaling steps, the urls written to
\* the file and the urls queued again after a failed fetch
PoolLog == [batches |-> <<>>, adjusted |-> <<>>, written |-> <<>>, requeued |-> {}]

InitAdv ==
    /\ prog = "adv"
    /\ fcall = <<>>
    /\ IdleDownload
    /\ IdleJournal
    /\ cfg \in PoolConfigs
    /\ crawl_queue = <<Seed>>
    /\ visited_urls = {}
    /\ stats = CrawlStatsNew(DEFAULT_WORKERS)
    /\ tasks = <<>>
    /\ main = [pc |-> "top"]
    /\ retry_tasks = <<>> /\ pdf_senders = <<>> /\ pdf_cache = <<>>
    /\ limiters = <<>> /\ sent = <<>>
    /\ log = PoolLog

\* the inputs of adjust_workers: a batch has ended on the page limit with any
\* error count and any worker level of the range
InitAdjust ==
    /\ prog = "adv"
    /\ fcall = <<>>
    /\ IdleDownload
    /\ IdleJournal
    /\ cfg \in PoolConfigs
    /\ crawl_queue \in {<<>>, <<PageS>>}
    /\ visited_urls = {}
    /\ stats \in [pages_crawled : {cfg.max_pages, cfg.max_pages + 1},
                   errors : (0 - 1)..(MaxErrors + 1),
                   active_workers : MIN_WORKERS..MAX_WORKERS]
    /\ tasks = [w \in 1..stats.active_workers |-> Worker("finished", NoUrl)]
    /\ main = [pc |-> "join"]
    /\ retry_tasks = <<>> /\ pdf_senders = <<>> /\ pdf_cache = <<>>
    /\ limiters = <<>> /\ sent = <<>>
    /\ log = [PoolLog EXCEPT !.batches = <<stats.active_workers>>]

NextAdv ==
    \/ AdvSpawn
    \/ \E w \in DOMAIN tasks : AdvPop(w)
    \/ \E w \in DOMAIN tasks : AdvCheck(w)
    \/ \E w \in DOMAIN tasks : AdvMark(w)
    \/ \E w \in DOMAIN tasks : AdvFetchOk(w)
    \/ \E w \in DOMAIN tasks : AdvDecErrors(w)
    \/ \E w \in DOMAIN tasks : AdvFetchErr(w)
    \/ AdvAdjust

SpecAdv == InitAdv /\ [][NextAdv]_vars

\* the crawl, and adjust_workers on all its inputs
SpecAdvRule == (InitAdv \/ InitAdjust) /\ [][NextAdv]_vars

----------------------------------------------------------------------------
(* webcrawler/main.rs: main.  crawl_queue is the deque of urls_to_crawl      *)
(* (every url is pushed under the key of the starting domain), visited_urls  *)
(* is crawled_urls, tasks are the spawned workers, stats holds the three     *)
(* atomics.                                                                  *)

\* the constants of webcrawler/main.rs, scaled down (30, 60, 20 and 568210
\* in the source)
MIN_THREADS == 2
MAX_THREADS == 3
WEB_ERROR_THRESHOLD == 2
WEB_MAX_PAGES == 3

WebConfigs == {[graph |-> g, excluded_domains |-> {}, max_pages |-> WEB_MAX_PAGES] :
                  g \in Graphs}

\* the scaling step behind the join of the handles
WebAdjustThreads(st) ==
    IF UGe(st.error_count, WEB_ERROR_THRESHOLD) /\ UGt(st.active_threads, MIN_THREADS)
    THEN [st EXCEPT !.active_threads = @ - 1]
    ELSE IF ~UGe(st.error_count, WEB_ERROR_THRESHOLD)
            /\ ~UGe(st.active_threads, MAX_THREADS)
    THEN [st EXCEPT !.active_threads = @ + 1]
    ELSE st

\* while num_pages_crawled < MAX_PAGES_PER_DOMAIN: active_threads tasks are
\* spawned; otherwise main returns
WebSpawn ==
    /\ prog = "web"
    /\ main.pc = "top"
    /\ IF UGe(stats.num_pages_crawled, cfg.max_pages)
       THEN /\ main' = [main EXCEPT !.pc = "done"]
            /\ UNCHANGED <<tasks, log>>
       ELSE /\ main' = [main EXCEPT !.pc = "join"]
            /\ tasks' = [w \in 1..stats.active_threads |-> Worker("loop", NoUrl)]
            /\ log' = [log EXCEPT !.batches = Append(@, stats.active_threads)]
    /\ UNCHANGED <<cfg, crawl_queue, visited_urls, stats, poolFrame>>

\* the head of the worker's loop: past the limit the worker leaves with
\* active_threads.fetch_sub(1); otherwise it pops a url and drops it when it
\* was crawled or its domain is excluded
WebPop(w) ==
    /\ prog = "web"
    /\ tasks[w].pc = "loop"
    /\ IF UGe(stats.num_pages_crawled, cfg.max_pages)
       THEN /\ tasks' = [tasks EXCEPT ![w] = Worker("finished", NoUrl)]
            /\ stats' = [stats EXCEPT !.active_threads = @ - 1]
            /\ UNCHANGED crawl_queue
       ELSE /\ crawl_queue # <<>>
            /\ crawl_queue' = Tail(crawl_queue)
            /\ tasks' = IF \/ as_str(Head(crawl_queue)) \in visited_urls
                           \/ Seed.host \in cfg.excluded_domains
                        THEN tasks
                        ELSE [tasks EXCEPT ![w] = Worker("fetch", Head(crawl_queue))]
            /\ UNCHANGED stats
    /\ UNCHANGED <<cfg, visited_urls, main, log, poolFrame>>

\* Ok(Ok(res)): the links are pushed, the url enters crawled_urls and the
\* file, num_pages_crawled.fetch_add(1), and error_count is loaded
WebFetchOk(w) ==
    /\ prog = "web"
    /\ tasks[w].pc = "fetch"
    /\ crawl_queue' = crawl_queue \o Links(cfg.graph, tasks[w].url)
    /\ visited_urls' = visited_urls \cup {as_str(tasks[w].url)}
    /\ stats' = [stats EXCEPT !.num_pages_crawled = @ + 1]
    /\ log' = [log EXCEPT !.written = Append(@, tasks[w].url)]
    /\ tasks' = IF UGt(stats.error_count, 0)
                THEN [tasks EXCEPT ![w].pc = "dec"]
                ELSE [tasks EXCEPT ![w] = Worker("loop", NoUrl)]
    /\ UNCHANGED <<cfg, main, poolFrame>>

\* error_count.fetch_sub(1), after the test
WebDecErrors(w) ==
    /\ prog = "web"
    /\ tasks[w].pc = "dec"
    /\ stats' = [stats EXCEPT !.error_count = @ - 1]
    /\ tasks' = [tasks EXCEPT ![w] = Worker("loop", NoUrl)]
    /\ UNCHANGED <<cfg, crawl_queue, visited_urls, main, log, poolFrame>>

\* Ok(Err(err)) or the timeout: the url is queued again, error_count.fetch_add(1)
WebFetchErr(w) ==
    /\ prog = "web"
    /\ tasks[w].pc = "fetch"
    /\ tasks[w].url \in Flaky
    /\ stats.error_count < MaxErrors
    /\ stats' = [stats EXCEPT !.error_count = @ + 1]
    /\ crawl_queue' = Append(crawl_queue, tasks[w].url)
    /\ tasks' = [tasks EXCEPT ![w] = Worker("loop", NoUrl)]
    /\ UNCHANGED <<cfg, visited_urls, main, log, poolFrame>>

\* every handle has been awaited: the scaling step
WebAdjust ==
    /\ prog = "web"
    /\ main.pc = "join"
    /\ WorkersDone
    /\ stats' = WebAdjustThreads(stats)
    /\ log' = [log EXCEPT !.adjusted = Append(@, [before |-> stats,
                                                  after |-> WebAdjustThreads(stats)])]
    /\ main' = [main EXCEPT !.pc = "top"]
    /\ tasks' = <<>>
    /\ UNCHANGED <<cfg, crawl_queue, visited_urls, poolFrame>>

InitWeb ==
    /\ prog = "web"
    /\ fcall = <<>>
    /\ IdleDownload
    /\ IdleJournal
    /\ cfg \in WebConfigs
    /\ crawl_queue = <<Seed>>
    /\ visited_urls = {}
    /\ stats = [num_pages_crawled |-> 0, error_count |-> 0, active_threads |-> MIN_THREADS]
    /\ tasks = <<>>
    /\ main = [pc |-> "top"]
    /\ retry_tasks = <<>> /\ pdf_senders = <<>> /\ pdf_cache = <<>>
    /\ limiters = <<>> /\ sent = <<>>
    /\ log = PoolLog

NextWeb ==
    \/ WebSpawn
    \/ \E w \in DOMAIN tasks : WebPop(w)
    \/ \E w \in DOMAIN tasks : WebFetchOk(w)
    \/ \E w \in DOMAIN tasks : WebDecErrors(w)
    \/ \E w \in DOMAIN tasks : WebFetchErr(w)
    \/ WebAdjust

\* the two worker pools of the repository
SpecPools == (InitAdv \/ InitWeb) /\ [][NextAdv \/ NextWeb]_vars

----------------------------------------------------------------------------
(* Claims about the worker pools *)

\* the worker level the scaling rule asks for
RuleLevel(errors, workers) ==
    IF UGe(errors, ERROR_THRESHOLD) /\ workers > MIN_WORKERS THEN workers - 1
    ELSE IF ~UGe(errors, ERROR_THRESHOLD \div 2) /\ workers < MAX_WORKERS THEN workers + 1
    ELSE workers

C17_WorkerLevelInRange ==
    /\ prog = "adv" => stats.active_workers \in MIN_WORKERS..MAX_WORKERS
    /\ prog = "web" => stats.active_threads \in MIN_THREADS..MAX_THREADS

\* C18: the error counter never goes below 0 (never wraps around), under any
\* interleaving of workers that succeed and fail.
C18_ErrorsNeverBelowZero ==
    prog = "adv" => stats.errors >= 0

----------------------------------------------------------------------------
(* Claims about the end of the recursive crawl *)

\* C19: the loop of run_recursive_crawl_with_shutdown leaves through its
\* idle-window check only when, at a tick that brings the count of consecutive
\* idle ticks to NoWorkCheck (20) or more, the JoinSet is empty and the crawl
\* queue is empty; with a task in flight or queued it leaves only at the hard
\* cap of NoWorkForce (60) idle ticks, or when the 300 s timeout drops it and
\* the shutdown flag is set.
C19_IdleWindowExit ==
    [][(prog = "crawl" /\ main.pc \in {"select", "capacity"}) =>
          /\ main'.pc \in {"select", "capacity", "drain", "done"}
          /\ main'.pc = "drain" =>
                /\ main'.no_work_counter = main.no_work_counter + 1
                /\ \/ main'.no_work_counter >= NoWorkForce
                   \/ /\ main'.no_work_counter >= NoWorkCheck
                      /\ JoinSetLen(tasks) = 0
                      /\ crawl_queue = <<>>
          /\ main'.pc = "done" => shutdown_signal'
          /\ main'.no_work_counter # main.no_work_counter =>
                \/ main'.no_work_counter = 0
                \/ main'.no_work_counter = main.no_work_counter + 1]_vars

\* the loop has left through the idle-window check, before the hard cap,
\* after at least one page was crawled
C19_Witness ==
    /\ prog = "crawl"
    /\ main.pc = "drain"
    /\ main.no_work_counter \in NoWorkCheck..(NoWorkForce - 1)
    /\ log.fetch_ok # {}
    /\ ~shutdown_signal

\* the loop has left at the hard cap with a crawl task still in the JoinSet
HardCapExit ==
    /\ prog = "crawl"
    /\ main.pc = "drain"
    /\ main.no_work_counter = NoWorkForce
    /\ JoinSetLen(tasks) > 0

----------------------------------------------------------------------------
(* crawl_and_download behind the recursive crawl, and its termination *)

tailRest == <<cfg, main, crawl_queue, log, visited_urls, tasks, retry_tasks, pdf_cache,
              limiters, sent, counters>>

tailFrame == <<prog, fcall, stats, jVars, files, resume, seed_list, committed>>

\* the crawl has ended or timed out: drop(crawl_tx), drop(pdf_tx)
CrDropPdfTx ==
    /\ prog = "crawl"
    /\ main.pc = "done"
    /\ ~pdf_closed
    /\ pdf_closed' = TRUE
    /\ UNCHANGED <<tailRest, pdf_senders, pdf_queue, dl, run, shutdown_signal>>
    /\ UNCHANGED tailFrame

\* the download task: stream.next() yields None, every sender is gone
CrDlClosed ==
    /\ prog = "crawl"
    /\ dl.pc = "idle"
    /\ pdf_queue = <<>>
    /\ pdf_closed
    /\ pdf_senders = <<>>
    /\ dl' = [dl EXCEPT !.pc = "exit"]
    /\ UNCHANGED <<tailRest, pdf_senders, pdf_queue, pdf_closed, run, shutdown_signal>>
    /\ UNCHANGED tailFrame

\* the download task: the next url arrives with the flag set: break; pdf_rx
\* is dropped and the senders still waiting get an error
CrDlShutdown ==
    /\ prog = "crawl"
    /\ dl.pc = "idle"
    /\ pdf_queue # <<>>
    /\ shutdown_signal
    /\ dl' = [dl EXCEPT !.pc = "exit"]
    /\ pdf_queue' = <<>>
    /\ pdf_senders' = <<>>
    /\ UNCHANGED <<tailRest, pdf_closed, run, shutdown_signal>>
    /\ UNCHANGED tailFrame

\* a return that does not wait for the download task
CrReturnAtOnce ==
    /\ prog = "crawl"
    /\ pdf_closed
    /\ run = 0
    /\ run' = 1
    /\ UNCHANGED <<tailRest, pdf_senders, pdf_queue, pdf_closed, dl, shutdown_signal>>
    /\ UNCHANGED tailFrame

\* timeout(60 s, download_handle) yields the count: crawl_and_download returns
CrReturn ==
    /\ prog = "crawl"
    /\ pdf_closed
    /\ dl.pc = "exit"
    /\ run = 0
    /\ run' = 1
    /\ UNCHANGED <<tailRest, pdf_senders, pdf_queue, pdf_closed, dl, shutdown_signal>>
    /\ UNCHANGED tailFrame

\* timeout(60 s, download_handle) elapses: the flag is set and
\* crawl_and_download returns 0 with the download task still running
CrDownloadWaitTimeout ==
    /\ prog = "crawl"
    /\ pdf_closed
    /\ dl.pc # "exit"
    /\ run = 0
    /\ run' = 1
    /\ shutdown_signal' = TRUE
    /\ UNCHANGED <<tailRest, pdf_senders, pdf_queue, pdf_closed, dl>>
    /\ UNCHANGED tailFrame

\* the sites of the termination check: a page with two PDF links, the chain
\* cut at depth 0 (a link to probe), and the site that fails every request,
\* with one retry and one crawler
TermConfigs ==
    {Config(0, 1, 1, 1, 0, "pdfs"), Config(0, 1, 1, 1, 0, "chain"),
     Config(None, 1, 1, 1, 1, "dead")}

InitTerm == InitCrawlOn(TermConfigs)

NextTerm ==
    \/ NextCrawl
    \/ CrDropPdfTx
    \/ CrDlClosed
    \/ CrDlShutdown
    \/ CrReturn
    \/ CrDownloadWaitTimeout

\* the runtime schedules every task that can run and every timer fires: the
\* loop, the crawl tasks (every request of theirs is under a timeout), the
\* detached senders, the download task and the orchestrator all take their
\* steps; the two timeouts of crawl_and_download are not relied on
FairTerm ==
    /\ WF_vars(MainRecv) /\ WF_vars(MainCapacityJoin) /\ WF_vars(MainJoin)
    /\ WF_vars(MainSleep) /\ WF_vars(MainDrain) /\ WF_vars(MainDone)
    /\ \A s \in 1..2 :
          WF_vars(s \in DOMAIN tasks /\
                  (\/ TaskLimiter(s) \/ TaskFetchOk(s) \/ TaskFetchErr(s) \/ TaskFilter(s)
                   \/ TaskEmit(s)
                   \/ \E i \in 1..2 : ClsStart(s, i) \/ ClsHead(s, i) \/ ClsRange(s, i)))
    /\ WF_vars(RetrySend \/ RetryGiveUp)
    /\ WF_vars(PdfSenderSend)
    /\ WF_vars(CrDlRecv) /\ WF_vars(CrDlDone)
    /\ WF_vars(Tick)
    /\ WF_vars(CrDropPdfTx) /\ WF_vars(CrDlClosed) /\ WF_vars(CrDlShutdown)
    /\ WF_vars(CrReturn)

SpecTerm == InitTerm /\ [][NextTerm]_vars /\ FairTerm

----------------------------------------------------------------------------
(* web_crawler_pdf/main.rs: main and Crawler::crawl as the one sender of    *)
(* the writer's channel (pdf_queue is pdf_sender / pdf_receiver), with      *)
(* writer_task at the other end.  main holds the position of the sender,    *)
(* log.sent the messages put on the channel with the statement that sent    *)
(* each.                                                                    *)

\* the capacity of mpsc::channel(100), and the verification results and
\* pages of one crawl
ChanCap == 2
MaxEvents == 4

AddPdfMsg(url, verified) ==
    [kind |-> "AddPdf", pdf |-> PdfInfo(url, verified), pages_crawled |-> 0,
     status |-> ""]

UpdateMetadataMsg(pages_crawled, status) ==
    [kind |-> "UpdateMetadata", pdf |-> PdfInfo("", FALSE),
     pages_crawled |-> pages_crawled, status |-> status]

repFrame == <<prog, fcall, stats, files, pdf_closed, dl, counters, shutdown_signal, resume,
              run, seed_list, committed, crawl_queue, visited_urls, tasks, retry_tasks,
              pdf_senders, pdf_cache, limiters, sent>>

\* pdf_sender.send(msg).await: Err when writer_task has returned and dropped
\* the receiver; otherwise the message is put on the channel once there is
\* room; the sender goes on at ok or at err
Send(msg, cause, ok, err) ==
    IF writer.pc = "done"
    THEN /\ main' = [main EXCEPT !.pc = err]
         /\ UNCHANGED <<pdf_queue, log>>
    ELSE /\ Len(pdf_queue) < ChanCap
         /\ pdf_queue' = Append(pdf_queue, msg)
         /\ log' = [log EXCEPT !.sent = Append(@, [msg |-> msg, cause |-> cause])]
         /\ main' = [main EXCEPT !.pc = ok]

\* main: UpdateMetadata { 0, "initializing" }; on Err main returns
RSendInit ==
    /\ prog = "report"
    /\ main.pc = "init"
    /\ Send(UpdateMetadataMsg(0, "initializing"), "init", "start", "end")
    /\ UNCHANGED <<cfg, jVars, repFrame>>

\* crawl: UpdateMetadata { 0, "in_progress" }; on Err crawl returns Err
RCrawlStart ==
    /\ prog = "report"
    /\ main.pc = "start"
    /\ Send(UpdateMetadataMsg(0, "in_progress"), "start", "parse", "failed")
    /\ UNCHANGED <<cfg, jVars, repFrame>>

\* crawl: Url::parse(&start_url)?
RParse ==
    /\ prog = "report"
    /\ main.pc = "parse"
    /\ main' = [main EXCEPT !.pc = IF cfg.start_url_ok THEN "loop" ELSE "failed"]
    /\ UNCHANGED <<cfg, pdf_queue, log, jVars, repFrame>>

\* crawl: a page is popped and fetch_page returns Ok: pages_crawled += 1 and
\* extract_and_verify_pdfs starts on its potential PDFs
RFetchOk ==
    /\ prog = "report"
    /\ main.pc = "loop"
    /\ main.events < MaxEvents
    /\ main' = [main EXCEPT !.pc = "verify", !.pages_crawled = @ + 1,
                            !.new_pdfs_found = 0, !.events = @ + 1]
    /\ UNCHANGED <<cfg, pdf_queue, log, jVars, repFrame>>

\* crawl: fetch_page returns Err
RFetchErr ==
    /\ prog = "report"
    /\ main.pc = "loop"
    /\ main.events < MaxEvents
    /\ main' = [main EXCEPT !.events = @ + 1]
    /\ UNCHANGED <<cfg, pdf_queue, log, jVars, repFrame>>

\* extract_and_verify_pdfs: futs.next() yields Ok with verified true, or
\* verification is off: AddPdf(pdf_info) is sent
RAccepted ==
    /\ prog = "report"
    /\ main.pc = "verify"
    /\ main.events < MaxEvents
    /\ \E url \in JUrls :
          IF writer.pc = "done"
          THEN /\ main' = [main EXCEPT !.events = @ + 1]
               /\ UNCHANGED <<pdf_queue, log>>
          ELSE /\ Len(pdf_queue) < ChanCap
               /\ pdf_queue' = Append(pdf_queue, AddPdfMsg(url, cfg.verify_pdfs))
               /\ log' = [log EXCEPT !.sent = Append(@, [msg |-> AddPdfMsg(url, cfg.verify_pdfs),
                                                         cause |-> "add"])]
               /\ main' = [main EXCEPT !.events = @ + 1, !.new_pdfs_found = @ + 1]
    /\ UNCHANGED <<cfg, jVars, repFrame>>

\* extract_and_verify_pdfs: verification is on and futs.next() yields Ok
\* with verified false, or Err: UpdateMetadata { 0, "in_progress" } is sent
\* and the candidate is skipped
RRejected ==
    /\ prog = "report"
    /\ main.pc = "verify"
    /\ cfg.verify_pdfs
    /\ main.events < MaxEvents
    /\ \E url \in JUrls :
          IF writer.pc = "done"
          THEN /\ main' = [main EXCEPT !.events = @ + 1, !.rejected = @ + 1]
               /\ UNCHANGED <<pdf_queue, log>>
          ELSE /\ Len(pdf_queue) < ChanCap
               /\ pdf_queue' = Append(pdf_queue, UpdateMetadataMsg(0, "in_progress"))
               /\ log' = [log EXCEPT !.sent = Append(@, [msg |-> UpdateMetadataMsg(0, "in_progress"),
                                                         cause |-> "rejected"])]
               /\ main' = [main EXCEPT !.events = @ + 1, !.rejected = @ + 1]
    /\ UNCHANGED <<cfg, jVars, repFrame>>

\* crawl, after extract_and_verify_pdfs: if pages_crawled % 5 == 0 ||
\* new_pdfs_found > 0 { UpdateMetadata { pages_crawled, "in_progress" } }
RPageEnd ==
    /\ prog = "report"
    /\ main.pc = "verify"
    /\ IF main.pages_crawled % 5 = 0 \/ main.new_pdfs_found > 0
       THEN Send(UpdateMetadataMsg(main.pages_crawled, "in_progress"), "page", "loop", "loop")
       ELSE /\ main' = [main EXCEPT !.pc = "loop"]
            /\ UNCHANGED <<pdf_queue, log>>
    /\ UNCHANGED <<cfg, jVars, repFrame>>

\* crawl, the queue is empty: UpdateMetadata { pages_crawled, "completed" }
\* and Ok(())
RFinal ==
    /\ prog = "report"
    /\ main.pc = "loop"
    /\ Send(UpdateMetadataMsg(main.pages_crawled, "completed"), "final", "read", "read")
    /\ UNCHANGED <<cfg, jVars, repFrame>>

\* main, crawl returned Ok: read_to_string(&args.output) and from_str; an
\* error of either ends main.  main.read is what was read, and whether
\* writer_task was still running then
RRead ==
    /\ prog = "report"
    /\ main.pc = "read"
    /\ main' = [main EXCEPT !.pc = "end",
                            !.read = [done |-> TRUE, ok |-> jdisk.out.exists,
                                      writer_alive |-> writer.pc # "done",
                                      doc |-> jdisk.out.doc]]
    /\ UNCHANGED <<cfg, pdf_queue, log, jVars, repFrame>>

\* main, crawl returned Err: UpdateMetadata { 0, "failed" }, its result ignored
RFailed ==
    /\ prog = "report"
    /\ main.pc = "failed"
    /\ Send(UpdateMetadataMsg(0, "failed"), "failed", "end", "end")
    /\ UNCHANGED <<cfg, jVars, repFrame>>

\* main returns: the runtime is dropped and writer_task with it, wherever
\* it is
RExit ==
    /\ prog = "report"
    /\ main.pc = "end"
    /\ writer.pc \notin {"done", "stopped"}
    /\ writer' = [writer EXCEPT !.pc = "stopped"]
    /\ UNCHANGED <<cfg, main, pdf_queue, log, results, discovered_urls, jdisk, past, dup_seen,
                   repFrame>>

\* writer_task: recv() yields the AddPdf at the head of the channel
RAddPdf ==
    /\ prog = "report"
    /\ writer.pc = "recv"
    /\ pdf_queue # <<>>
    /\ Head(pdf_queue).kind = "AddPdf"
    /\ LET pdf == Head(pdf_queue).pdf
       IN  /\ results' = AddPdf(results, discovered_urls, pdf)
           /\ discovered_urls' = discovered_urls \cup {pdf.url}
           /\ dup_seen' = (dup_seen \/ pdf.url \in discovered_urls)
           /\ writer' = IF pdf.url \in discovered_urls THEN JGoRecv(writer)
                        ELSE JGoWrite(writer)
    /\ pdf_queue' = Tail(pdf_queue)
    /\ past' = past \cup {results'}
    /\ UNCHANGED <<cfg, main, log, jdisk, repFrame>>

\* writer_task: recv() yields the UpdateMetadata at the head of the channel
RUpdateMetadata ==
    /\ prog = "report"
    /\ writer.pc = "recv"
    /\ pdf_queue # <<>>
    /\ Head(pdf_queue).kind = "UpdateMetadata"
    /\ results' = UpdateMetadata(results, Head(pdf_queue).pages_crawled,
                                 Head(pdf_queue).status)
    /\ pdf_queue' = Tail(pdf_queue)
    /\ past' = past \cup {results'}
    /\ writer' = JGoWrite(writer)
    /\ UNCHANGED <<cfg, main, log, discovered_urls, jdisk, dup_seen, repFrame>>

\* Crawler::new has spawned writer_task with the initial document; main is
\* about to send its first message
InitReport ==
    /\ prog = "report"
    /\ fcall = <<>>
    /\ stats = <<>>
    /\ files = <<>> /\ pdf_closed = FALSE /\ dl = <<>> /\ counters = <<0, 0, 0, 0>>
    /\ shutdown_signal = FALSE /\ resume = FALSE /\ run = 0 /\ seed_list = <<>>
    /\ committed = {}
    /\ crawl_queue = <<>> /\ visited_urls = {} /\ tasks = <<>> /\ retry_tasks = <<>>
    /\ pdf_senders = <<>> /\ pdf_cache = <<>> /\ limiters = <<>> /\ sent = <<>>
    /\ cfg \in [verify_pdfs : BOOLEAN, start_url_ok : BOOLEAN]
    /\ pdf_queue = <<>>
    /\ main = [pc |-> "init", pages_crawled |-> 0, new_pdfs_found |-> 0, events |-> 0,
               rejected |-> 0,
               read |-> [done |-> FALSE, ok |-> FALSE, writer_alive |-> FALSE,
                         doc |-> NoFile.doc]]
    /\ log = [sent |-> <<>>]
    /\ results = InitialResults("in_progress")
    /\ discovered_urls = {}
    /\ jdisk = [out |-> NoFile, tmp |-> NoFile]
    /\ writer = [pc |-> "start", taken |-> 0]
    /\ past = {results}
    /\ dup_seen = FALSE

NextReport ==
    \/ RSendInit
    \/ RCrawlStart
    \/ RParse
    \/ RFetchOk
    \/ RFetchErr
    \/ RAccepted
    \/ RRejected
    \/ RPageEnd
    \/ RFinal
    \/ RFailed
    \/ RRead
    \/ RExit
    \/ RAddPdf
    \/ RUpdateMetadata
    \/ JStart
    \/ JCreate
    \/ JWritePart
    \/ JWriteAll
    \/ JSync
    \/ JRename
    \/ JIoError

SpecReport == InitReport /\ [][NextReport]_vars

\* the messages the writer has taken off the channel, in channel order
TakenMsgs == [i \in 1..writer.taken |-> log.sent[i].msg]

\* the urls of the AddPdf messages of a sequence, in its order
RECURSIVE AddUrls(_)
AddUrls(msgs) ==
    IF msgs = <<>> THEN <<>>
    ELSE (IF Head(msgs).kind = "AddPdf" THEN <<Head(msgs).pdf.url>> ELSE <<>>)
         \o AddUrls(Tail(msgs))

\* a sequence with every element kept at its first place only
RECURSIVE FirstOccurrences(_)
FirstOccurrences(seq) ==
    IF seq = <<>> THEN <<>>
    ELSE LET front == FirstOccurrences(SubSeq(seq, 1, Len(seq) - 1))
         IN  IF \E i \in DOMAIN front : front[i] = Last(seq)
             THEN front
             ELSE Append(front, Last(seq))

IsPrefixOf(s, t) == Len(s) <= Len(t) /\ SubSeq(t, 1, Len(s)) = s

\* the document at the output path is replaced by one that keeps its records
\* in place
OutAppendsOnly ==
    (jdisk.out.exists /\ jdisk'.out.exists)
        => IsPrefixOf(jdisk.out.doc.pdfs, jdisk'.out.doc.pdfs)

\* C22: the records the writer holds, and those of every document at the
\* output path or in the temp file, are in the order in which their AddPdf
\* messages were put on the channel and taken off it; a later document at the
\* output path is the earlier one with records appended at the end.
C22_RecordsInChannelOrder ==
    /\ [](prog = "report" =>
             /\ writer.taken <= Len(log.sent)
             /\ UrlsOf(results) = FirstOccurrences(AddUrls(TakenMsgs))
             /\ jdisk.out.exists => IsPrefixOf(jdisk.out.doc.pdfs, results.pdfs)
             /\ jdisk.tmp.exists => IsPrefixOf(jdisk.tmp.doc.pdfs, results.pdfs))
    /\ [][(prog = "report") => OutAppendsOnly]_vars

\* two records on disk, from two AddPdf messages sent one after the other
C22_Witness ==
    /\ prog = "report"
    /\ jdisk.out.exists
    /\ Len(jdisk.out.doc.pdfs) = 2
    /\ UrlsOf(jdisk.out.doc) = AddUrls(TakenMsgs)

\* the candidates that failed verification and whose message the writer has
\* taken off the channel
RejectedTaken ==
    Cardinality({i \in 1..writer.taken : log.sent[i].cause = "rejected"})

\* C23: with verification enabled a candidate that fails verification leaves
\* no record in pdfs, and failed_verifications in the writer's document is
\* the number of failed candidates the writer has been told of.
C23_RejectionCounted ==
    (prog = "report" /\ cfg.verify_pdfs) =>
        /\ Len(results.pdfs) = Len(FirstOccurrences(AddUrls(TakenMsgs)))
        /\ results.metadata.failed_verifications = RejectedTaken

\* the half of C23 that holds: a rejected candidate adds no record
C23_NoRecordForRejected ==
    (prog = "report" /\ cfg.verify_pdfs) =>
        Len(results.pdfs) = Len(FirstOccurrences(AddUrls(TakenMsgs)))

\* a rejected candidate's message has been taken and written to the report
C23_RejectedWritten ==
    /\ prog = "report"
    /\ cfg.verify_pdfs
    /\ RejectedTaken = 1
    /\ jdisk.out.exists
    /\ jdisk.out.doc = results
    /\ results.metadata.failed_verifications = 0

ReportStatuses == {"initializing", "in_progress", "completed", "failed"}

\* the place of a status in the order initializing, in_progress, then
\* completed or failed
StatusRank(status) ==
    CASE status = "initializing" -> 0
      [] status = "in_progress" -> 1
      [] status \in {"completed", "failed"} -> 2
      [] OTHER -> 3

\* the document at the output path is replaced by one whose status is not
\* earlier in the order, and a completed or failed one keeps its status
StatusForward ==
    (jdisk.out.exists /\ jdisk'.out.exists) =>
        LET old == jdisk.out.doc.metadata.status
            new == jdisk'.out.doc.metadata.status
        IN  /\ StatusRank(new) >= StatusRank(old)
            /\ StatusRank(old) = 2 => new = old

\* a completed or failed document at the output path keeps its status
FinalStatusStays ==
    (jdisk.out.exists /\ jdisk'.out.exists
       /\ StatusRank(jdisk.out.doc.metadata.status) = 2) =>
        jdisk'.out.doc.metadata.status = jdisk.out.doc.metadata.status

\* C26: every document at the output path has one of the four statuses, and
\* from one document to the next the status only moves forward: initializing,
\* then in_progress, then completed or failed, which is final.
C26_StatusMovesForward ==
    /\ [](prog = "report" /\ jdisk.out.exists =>
             jdisk.out.doc.metadata.status \in ReportStatuses)
    /\ [][(prog = "report") => StatusForward]_vars

\* the part of C26 that holds: the statuses are the four named ones, and
\* completed and failed are final
C26_FinalStatusIsFinal ==
    /\ [](prog = "report" /\ jdisk.out.exists =>
             jdisk.out.doc.metadata.status \in ReportStatuses)
    /\ [][(prog = "report") => FinalStatusStays]_vars

\* the report says initializing: it said in_progress before
C26_InitializingOnDisk ==
    /\ prog = "report"
    /\ jdisk.out.exists
    /\ jdisk.out.doc.metadata.status = "initializing"

\* a completed report, and a failed one
C26_CompletedOnDisk ==
    prog = "report" /\ jdisk.out.exists /\ jdisk.out.doc.metadata.status = "completed"

C26_FailedOnDisk ==
    prog = "report" /\ jdisk.out.exists /\ jdisk.out.doc.metadata.status = "failed"

----------------------------------------------------------------------------
(* web_crawler_pdf/main.rs: Crawler::can_fetch on its own.  fcall holds     *)
(* respect_robots and robots_cache of the crawler, and what the calls did:  *)
(* the requests made for each base, the response each base gave, and every  *)
(* (url, verdict) a call returned.  A body is a sequence of tokens.         *)

MaxCalls == 3

RobotsUrls ==
    [scheme : {"http", "https"}, host : {"a", "b"}, path : {<<"/">>}]
        \cup {[scheme |-> "http", host |-> "a", path |-> <<"/", "x">>]}

\* format!("{}://{}", url.scheme(), url.host_str().unwrap_or(""))
base_url(url) == <<url.scheme, "://", url.host>>

RobotsBases == {base_url(u) : u \in RobotsUrls}

RobotsLiteral == <<"Disallow: ", "/">>

\* str::contains
Contains(content, pat) ==
    \E i \in 0..(Len(content) - Len(pat)) :
        SubSeq(content, i + 1, i + Len(pat)) = pat

RobotsBodies ==
    { <<"User-agent: *", "\n", "Disallow: ", "/">>,
      <<"User-agent: *", "\n", "Disallow: ", "/", "private">>,
      <<"User-agent: *", "\n", "Disallow: ">>,
      <<"User-agent: *", "\n", "Allow: ", "/">> }

\* what asking for /robots.txt comes to: the uri does not parse, the request
\* cannot be built, the request fails, the status is no success, the body
\* cannot be read or is not UTF-8, or a body is read
RobotsFailures == {"uri", "build", "request", "status", "body", "utf8"}

RobotsResponses ==
    [kind : RobotsFailures, body : {<<>>}] \cup [kind : {"ok"}, body : RobotsBodies]

NoResponse == [kind |-> "none", body |-> <<>>]

\* a request goes out unless the uri or the request could not be built
RequestMade(resp) == resp.kind \notin {"uri", "build"}

\* a gate that denies whenever robots.txt could not be had
verdict_deny_on_failure(resp) ==
    resp.kind = "ok" /\ ~Contains(resp.body, RobotsLiteral)

\* can_fetch, after the cache missed: the verdict for a response
verdict(resp) ==
    IF resp.kind = "ok" THEN ~Contains(resp.body, RobotsLiteral) ELSE TRUE

robFrame == <<prog, stats, dlVars, jVars, crVars>>

\* can_fetch: if !self.respect_robots { return true; }
RobDisabled ==
    /\ prog = "robots"
    /\ fcall.calls < MaxCalls
    /\ ~fcall.respect_robots
    /\ \E url \in RobotsUrls :
          fcall' = [fcall EXCEPT !.calls = @ + 1,
                                 !.answers = @ \cup {[url |-> url, allowed |-> TRUE]}]
    /\ UNCHANGED robFrame

\* can_fetch: the base is in robots_cache
RobCached ==
    /\ prog = "robots"
    /\ fcall.calls < MaxCalls
    /\ fcall.respect_robots
    /\ \E url \in RobotsUrls :
          /\ fcall.robots_cache[base_url(url)] # "none"
          /\ fcall' = [fcall EXCEPT
                 !.calls = @ + 1,
                 !.answers = @ \cup {[url |-> url,
                       allowed |-> fcall.robots_cache[base_url(url)] = "allow"]}]
    /\ UNCHANGED robFrame

\* can_fetch: the base is not in robots_cache; /robots.txt is asked for, the
\* verdict is put in the cache and returned
RobAsk ==
    /\ prog = "robots"
    /\ fcall.calls < MaxCalls
    /\ fcall.respect_robots
    /\ \E url \in RobotsUrls, resp \in RobotsResponses :
          LET b == base_url(url)
          IN  /\ fcall.robots_cache[b] = "none"
              /\ fcall' = [fcall EXCEPT
                     !.calls = @ + 1,
                     !.robots_cache[b] = IF verdict(resp) THEN "allow" ELSE "deny",
                     !.requests[b] = @ + (IF RequestMade(resp) THEN 1 ELSE 0),
                     !.response[b] = resp,
                     !.answers = @ \cup {[url |-> url, allowed |-> verdict(resp)]}]
    /\ UNCHANGED robFrame

InitRobots ==
    /\ prog = "robots"
    /\ stats = <<>>
    /\ IdleDownload
    /\ IdleJournal
    /\ IdleCrawl
    /\ fcall \in [respect_robots : BOOLEAN,
                  robots_cache : {[b \in RobotsBases |-> "none"]},
                  requests : {[b \in RobotsBases |-> 0]},
                  response : {[b \in RobotsBases |-> NoResponse]},
                  answers : {{}},
                  calls : {0}]

NextRobots == RobDisabled \/ RobCached \/ RobAsk

SpecRobots == InitRobots /\ [][NextRobots]_vars

\* the response says: fetched successfully and contains the literal
SaysDisallow(resp) == resp.kind = "ok" /\ Contains(resp.body, RobotsLiteral)

HostOf(b) == b[3]

\* the /robots.txt requests made to a host, over all schemes
RequestsToHost(h) ==
    LET bs == {b \in RobotsBases : HostOf(b) = h}
        RECURSIVE Sum(_)
        Sum(S) == IF S = {} THEN 0
                  ELSE LET b == CHOOSE x \in S : TRUE
                       IN  fcall.requests[b] + Sum(S \ {b})
    IN  Sum(bs)

\* what C24 says of the verdicts themselves, whatever the cache key
VerdictRule ==
    /\ fcall.respect_robots =>
          \A a \in fcall.answers :
              ~a.allowed <=> SaysDisallow(fcall.response[base_url(a.url)])
    /\ ~fcall.respect_robots =>
          /\ \A a \in fcall.answers : a.allowed
          /\ \A b \in RobotsBases : fcall.requests[b] = 0

\* C24: with respect_robots a URL is denied exactly when /robots.txt of its
\* scheme and host was fetched successfully and contains the literal
\* "Disallow: /"; every failure permits; the verdict is cached under
\* scheme://host, so /robots.txt is requested at most once for each scheme
\* and host and the verdict for a scheme and host never changes; without
\* respect_robots every URL is permitted and no request is made.
C24_RobotsGatePerBase ==
    prog = "robots" =>
        /\ VerdictRule
        /\ \A b \in RobotsBases : fcall.requests[b] <= 1
        /\ \A a1, a2 \in fcall.answers :
              base_url(a1.url) = base_url(a2.url) => a1.allowed = a2.allowed

\* one base denied by its robots.txt, twice, with one request; the same host
\* under the other scheme permitted after a failure
C24_Witness ==
    /\ prog = "robots"
    /\ fcall.respect_robots
    /\ fcall.requests[<<"http", "://", "a">>] = 1
    /\ \E a1, a2, a3 \in fcall.answers :
          /\ a1.url.scheme = "http" /\ a1.url.host = "a" /\ a1.url.path = <<"/">>
          /\ a2.url.scheme = "http" /\ a2.url.host = "a" /\ a2.url.path = <<"/", "x">>
          /\ ~a1.allowed /\ ~a2.allowed
          /\ a3.url.scheme = "https" /\ a3.url.host = "a" /\ a3.allowed
    /\ fcall.response[<<"https", "://", "a">>].kind \in RobotsFailures

\* C24 as stated, per host: /robots.txt is requested at most once for a
\* host and the verdict for a host never changes.
C24_RobotsGatePerHost ==
    prog = "robots" =>
        /\ VerdictRule
        /\ \A h \in {"a", "b"} : RequestsToHost(h) <= 1
        /\ \A a1, a2 \in fcall.answers :
              a1.url.host = a2.url.host => a1.allowed = a2.allowed

----------------------------------------------------------------------------
(* pdf_downloader: Url::parse followed by ParallelPDFCrawler::hash_url, on  *)
(* its own.  fcall holds two URLs as written and, once hashed, their        *)
(* normalized strings (which stand for the hashes) and the normalized       *)
(* string of each normalized string parsed again.                           *)

\* a URL as written: the scheme and the host in any letter case
RawUrls ==
    [scheme : {"http", "HTTP", "Http"},
     host : {"a", "A"},
     path : {<<>>, <<"/">>, <<"/", "p">>, <<"/", "p", "/">>, <<"/", "P">>,
             <<"/", "p", "/", "/">>}]

\* Url::parse on a URL as written: the scheme and the host are lowercased,
\* an empty path becomes "/"
UrlParse(raw) ==
    [scheme |-> LowerTok(raw.scheme), host |-> LowerTok(raw.host),
     path |-> IF raw.path = <<>> THEN <<"/">> ELSE raw.path]

\* Url::parse on a string of tokens scheme, "://", host, path...
UrlParseStr(str) ==
    UrlParse([scheme |-> str[1], host |-> str[3], path |-> SubSeq(str, 4, Len(str))])

hashFrame == <<prog, stats, dlVars, jVars, crVars>>

\* the two URLs are parsed and hashed, and each normalized string is parsed
\* and hashed again
HashUrls ==
    /\ prog = "hash"
    /\ fcall.pc = "input"
    /\ fcall' = [fcall EXCEPT
           !.pc = "hashed",
           !.hash_a = hash_url(UrlParse(fcall.a)),
           !.hash_b = hash_url(UrlParse(fcall.b)),
           !.again_a = hash_url(UrlParseStr(hash_url(UrlParse(fcall.a)))),
           !.again_b = hash_url(UrlParseStr(hash_url(UrlParse(fcall.b))))]
    /\ UNCHANGED hashFrame

InitHash ==
    /\ prog = "hash"
    /\ stats = <<>>
    /\ IdleDownload
    /\ IdleJournal
    /\ IdleCrawl
    /\ fcall \in [pc : {"input"}, a : RawUrls, b : RawUrls,
                  hash_a : {<<>>}, hash_b : {<<>>}, again_a : {<<>>}, again_b : {<<>>}]

NextHash == HashUrls

SpecHash == InitHash /\ [][NextHash]_vars

\* b is a with one "/" more at the end
OneSlashMore(a, b) ==
    /\ a.scheme = b.scheme /\ a.host = b.host
    /\ b.path = Append(a.path, "/")

\* a and b differ in the letter case of the scheme only
SchemeCaseOnly(a, b) ==
    /\ a.scheme # b.scheme /\ LowerTok(a.scheme) = LowerTok(b.scheme)
    /\ a.host = b.host /\ a.path = b.path

\* C25: normalizing a normalized URL returns it unchanged, and two URLs that
\* differ only by a trailing "/" or only by the letter case of the scheme
\* have the same hash.
C25_CanonicalIdentity ==
    (prog = "hash" /\ fcall.pc = "hashed") =>
        /\ fcall.again_a = fcall.hash_a
        /\ fcall.again_b = fcall.hash_b
        /\ OneSlashMore(fcall.a, fcall.b) => fcall.hash_a = fcall.hash_b
        /\ SchemeCaseOnly(fcall.a, fcall.b) => fcall.hash_a = fcall.hash_b

\* http://a/p and http://a/p/ hashed, and HTTP://a/p with http://a/p
C25_Witness ==
    /\ prog = "hash"
    /\ fcall.pc = "hashed"
    /\ OneSlashMore(fcall.a, fcall.b)
    /\ fcall.a.path = <<"/", "p">>
    /\ fcall.hash_a = <<"http", "://", "a", "/", "p">>
    /\ fcall.hash_b = fcall.hash_a

C25_SchemeCaseHashed ==
    /\ prog = "hash"
    /\ fcall.pc = "hashed"
    /\ SchemeCaseOnly(fcall.a, fcall.b)
    /\ fcall.a.scheme = "HTTP"
    /\ fcall.hash_a = fcall.hash_b

----------------------------------------------------------------------------
\* C27: in pdf_downloader the queued counter equals the number of URLs in
\* the download channel, so it is never below 0: it is incremented for every
\* URL that enters the channel, by try_send or by the detached sender, and
\* decremented for every URL taken.
C27_QueuedMatchesChannel ==
    prog = "crawl" => counters[3] = Len(pdf_queue)

\* a URL sent by the detached sender is in the channel and the counter is 0
C27_UncountedInChannel ==
    /\ prog = "crawl"
    /\ Len(pdf_queue) = 1
    /\ pdf_senders = <<>>
    /\ counters[3] = 0

\* the positions of a crawl task after the page was fetched and parsed: the
\* links are filtered and classified
AfterFetch == {"filter", "check"}

\* C29: in pdf_downloader no crawl task holds a permit of the global socket
\* semaphore once its page has been received: the permit is released before
\* the links of the page are filtered and classified.
C29_PermitReleasedAfterFetch ==
    prog = "crawl" =>
        \A s \in DOMAIN tasks : tasks[s].pc \in AfterFetch => ~HoldsPermit(tasks[s])

\* every permit is held by a task that has its page already, and a crawl
\* task waits in the queue
C29_PermitsHeldByClassifiers ==
    /\ prog = "crawl"
    /\ PermitsFree(tasks) = 0
    /\ crawl_queue # <<>>
    /\ \A s \in DOMAIN tasks : HoldsPermit(tasks[s]) => tasks[s].pc \in AfterFetch

----------------------------------------------------------------------------
(* pdf_downloader: ParallelPDFCrawler::get_rate_limiter and the wait on the *)
(* bucket it returns, called by several tasks at once.  fcall holds the     *)
(* registry (rate_limiters: the bucket of each host, 0 for no entry), the   *)
(* task that holds its mutex (0 for none), the tokens of each bucket made,  *)
(* the position of each task, and every (host, bucket) a call returned.     *)

RegTasks == 3
MaxRegCalls == 2
RegRate == 1
RegHosts == {"a", "b"}

\* a registry that makes a bucket at every call
insert_every_time(registry, host, fresh) == [registry EXCEPT ![host] = fresh]

\* entry(host).or_insert_with(..): the bucket of a host that has none is the
\* fresh one
or_insert_with(registry, host, fresh) ==
    IF registry[host] # 0 THEN registry ELSE [registry EXCEPT ![host] = fresh]

regFrame == <<prog, stats, dlVars, jVars, crVars>>

\* get_rate_limiter: self.state.rate_limiters.lock().unwrap()
RegLock(t) ==
    /\ prog = "registry"
    /\ fcall.tasks[t].pc = "call"
    /\ fcall.lock = 0
    /\ fcall' = [fcall EXCEPT !.lock = t, !.tasks[t].pc = "locked"]
    /\ UNCHANGED regFrame

\* get_rate_limiter: entry(..).or_insert_with(..).clone(), and the guard is
\* dropped at the return
RegGet(t) ==
    /\ prog = "registry"
    /\ fcall.tasks[t].pc = "locked"
    /\ LET host == fcall.tasks[t].host
           fresh == Len(fcall.tokens) + 1
           registry == or_insert_with(fcall.registry, host, fresh)
       IN  fcall' = [fcall EXCEPT
               !.registry = registry,
               !.tokens = IF registry[host] = fresh THEN Append(@, RegRate) ELSE @,
               !.lock = 0,
               !.tasks[t].pc = "wait",
               !.tasks[t].bucket = registry[host],
               !.got = @ \cup {[host |-> host, bucket |-> registry[host]]}]
    /\ UNCHANGED regFrame

\* limiter.until_ready().await returns: a token of the bucket is taken
RegReady(t) ==
    /\ prog = "registry"
    /\ fcall.tasks[t].pc = "wait"
    /\ fcall.tokens[fcall.tasks[t].bucket] > 0
    /\ fcall' = [fcall EXCEPT !.tokens[fcall.tasks[t].bucket] = @ - 1,
                              !.tasks[t].pc = "done"]
    /\ UNCHANGED regFrame

\* the task's next crawl task: another call, for any host
RegAgain(t) ==
    /\ prog = "registry"
    /\ fcall.tasks[t].pc = "done"
    /\ fcall.tasks[t].calls < MaxRegCalls
    /\ \E host \in RegHosts :
          fcall' = [fcall EXCEPT !.tasks[t] = [pc |-> "call", host |-> host, bucket |-> 0,
                                               calls |-> @.calls + 1]]
    /\ UNCHANGED regFrame

\* time passes: every bucket gains a token, up to its capacity
RegTick ==
    /\ prog = "registry"
    /\ \E b \in DOMAIN fcall.tokens : fcall.tokens[b] < RegRate
    /\ fcall' = [fcall EXCEPT !.tokens = [b \in DOMAIN @ |-> Min(RegRate, @[b] + 1)]]
    /\ UNCHANGED regFrame

InitRegistry ==
    /\ prog = "registry"
    /\ stats = <<>>
    /\ IdleDownload
    /\ IdleJournal
    /\ IdleCrawl
    /\ \E hosts \in [1..RegTasks -> RegHosts] :
          fcall = [registry |-> [h \in RegHosts |-> 0],
                   lock |-> 0,
                   tokens |-> <<>>,
                   tasks |-> [t \in 1..RegTasks |->
                                 [pc |-> "call", host |-> hosts[t], bucket |-> 0, calls |-> 1]],
                   got |-> {}]

NextRegistry ==
    \/ \E t \in 1..RegTasks : RegLock(t)
    \/ \E t \in 1..RegTasks : RegGet(t)
    \/ \E t \in 1..RegTasks : RegReady(t)
    \/ \E t \in 1..RegTasks : RegAgain(t)
    \/ RegTick

SpecRegistry == InitRegistry /\ [][NextRegistry]_vars

\* an entry of the registry stays what it is
EntriesKept ==
    \A h \in RegHosts : fcall.registry[h] # 0 => fcall'.registry[h] = fcall.registry[h]

\* C28: the registry holds one bucket per host: all calls for a host return
\* the bucket that is in the registry for it, as many buckets were made as
\* hosts were asked for, an entry is never removed or replaced, and the mutex
\* of the registry is held only inside get_rate_limiter, never by a task that
\* waits for a token.
C28_OneBucketPerHost ==
    /\ [](prog = "registry" =>
             /\ \A g \in fcall.got : fcall.registry[g.host] = g.bucket
             /\ \A g1, g2 \in fcall.got : g1.host = g2.host => g1.bucket = g2.bucket
             /\ Len(fcall.tokens) = Cardinality({h \in RegHosts : fcall.registry[h] # 0})
             /\ \A t \in 1..RegTasks : fcall.tasks[t].pc = "wait" => fcall.lock # t
             /\ fcall.lock # 0 => fcall.tasks[fcall.lock].pc = "locked")
    /\ [][(prog = "registry") => EntriesKept]_vars

\* two tasks made the first call for one host at once and got one bucket; one
\* of them waits for a token while a third task is inside get_rate_limiter
\* for another host
C28_Witness ==
    /\ prog = "registry"
    /\ fcall.tasks[1].host = "a" /\ fcall.tasks[2].host = "a" /\ fcall.tasks[3].host = "b"
    /\ fcall.tasks[1].calls = 1 /\ fcall.tasks[2].calls = 1
    /\ fcall.tasks[1].pc = "done"
    /\ fcall.tasks[2].pc = "wait"
    /\ fcall.tasks[1].bucket = fcall.tasks[2].bucket
    /\ fcall.tokens[fcall.tasks[2].bucket] = 0
    /\ fcall.tasks[3].pc = "locked"

----------------------------------------------------------------------------
(* hydra_mt/examples/recursive_crawler: should_crawl on its own.  fcall     *)
(* holds the two URLs, the configuration and, once called, the result.      *)

ShouldUrls ==
    [scheme : {"http", "https", "ftp", "mailto"},
     host : {"example.com", "external.com", "10.0.0.1", ""},
     path : {<<"/">>}]

shouldFrame == <<prog, stats, dlVars, jVars, crVars>>

ShouldCall ==
    /\ prog = "should"
    /\ fcall.pc = "input"
    /\ fcall' = [fcall EXCEPT
           !.pc = "returned",
           !.result = RecShouldCrawl(fcall.base_url, fcall.target_url, fcall.config)]
    /\ UNCHANGED shouldFrame

InitShould ==
    /\ prog = "should"
    /\ stats = <<>>
    /\ IdleDownload
    /\ IdleJournal
    /\ IdleCrawl
    /\ fcall \in [pc : {"input"}, base_url : ShouldUrls, target_url : ShouldUrls,
                  config : [allow_external : BOOLEAN], result : {FALSE}]

NextShould == ShouldCall

SpecShould == InitShould /\ [][NextShould]_vars

DomainNames == {"example.com", "external.com"}

\* C30: should_crawl is true exactly when the target's scheme is http or
\* https and, unless allow_external, both URLs have a domain name as host
\* and the two are equal.
C30_ShouldCrawlRule ==
    (prog = "should" /\ fcall.pc = "returned") =>
        (fcall.result <=>
            /\ fcall.target_url.scheme \in {"http", "https"}
            /\ \/ fcall.config.allow_external
               \/ /\ fcall.base_url.host \in DomainNames
                  /\ fcall.target_url.host \in DomainNames
                  /\ fcall.base_url.host = fcall.target_url.host)

\* two URLs of one IP address, external links not allowed: refused
C30_Witness ==
    /\ prog = "should"
    /\ fcall.pc = "returned"
    /\ ~fcall.config.allow_external
    /\ fcall.base_url.scheme = "https" /\ fcall.target_url.scheme = "https"
    /\ fcall.base_url.host = "10.0.0.1" /\ fcall.target_url.host = "10.0.0.1"
    /\ ~fcall.result

\* the three cases of the tests: same domain, external blocked, external
\* allowed
C30_TestCases ==
    /\ prog = "should"
    /\ fcall.pc = "returned"
    /\ fcall.base_url.scheme = "https" /\ fcall.target_url.scheme = "https"
    /\ fcall.base_url.host = "example.com"
    /\ \/ fcall.target_url.host = "example.com" /\ ~fcall.config.allow_external /\ fcall.result
       \/ fcall.target_url.host = "external.com" /\ ~fcall.config.allow_external /\ ~fcall.result
       \/ fcall.target_url.host = "external.com" /\ fcall.config.allow_external /\ fcall.result

----------------------------------------------------------------------------
(* The link extractors on their own: extract_links_optimized of             *)
(* pdf_downloader (the part run under spawn_blocking) and extract_urls of   *)
(* async_advanced.  A page is a sequence of anchors [href, text]; an href   *)
(* is what is written in the attribute, a text a sequence of tokens.  fcall *)
(* holds the page, the base URL, the extractor and, once it has run, the    *)
(* links it returned and the anchor-text map.                               *)

MaxAnchors == 2

\* what an href attribute can hold: an absolute URL, a path from the root,
\* a path relative to the page, a URL without authority (mailto:,
\* javascript:), and text that Url::join rejects
Hrefs ==
    { [kind |-> "abs", scheme |-> "https", host |-> "example.com", path |-> <<"/", "page1">>],
      [kind |-> "abs", scheme |-> "http", host |-> "10.0.0.1", path |-> <<"/">>],
      [kind |-> "abs", scheme |-> "ftp", host |-> "example.com", path |-> <<"/", "f">>],
      [kind |-> "root", scheme |-> "", host |-> "", path |-> <<"/", "page2">>],
      [kind |-> "rel", scheme |-> "", host |-> "", path |-> <<"page3">>],
      [kind |-> "opaque", scheme |-> "mailto", host |-> "", path |-> <<"test@example.com">>],
      [kind |-> "opaque", scheme |-> "javascript", host |-> "", path |-> <<"void(0)">>],
      [kind |-> "bad", scheme |-> "", host |-> "", path |-> <<"http://[">>] }

AnchorTexts == { <<>>, <<" ">>, <<"Link">>, <<" ", "Link", " ">> }

Anchors == [href : Hrefs, text : AnchorTexts]

ExtractBases ==
    { [scheme |-> "https", host |-> "example.com", path |-> <<"/">>],
      [scheme |-> "http", host |-> "external.com", path |-> <<"/", "dir", "/", "index">>] }

\* the path up to and with its last "/"
RECURSIVE DirOf(_)
DirOf(path) ==
    IF path = <<>> \/ Last(path) = "/" THEN path
    ELSE DirOf(SubSeq(path, 1, Len(path) - 1))

\* Url::join: Ok(url) or Err
join(base, href) ==
    CASE href.kind = "abs" ->
             [ok |-> TRUE, url |-> [scheme |-> href.scheme, host |-> href.host,
                                    path |-> href.path]]
      [] href.kind = "root" ->
             [ok |-> TRUE, url |-> [scheme |-> base.scheme, host |-> base.host,
                                    path |-> href.path]]
      [] href.kind = "rel" ->
             [ok |-> TRUE, url |-> [scheme |-> base.scheme, host |-> base.host,
                                    path |-> DirOf(base.path) \o href.path]]
      [] href.kind = "opaque" ->
             [ok |-> TRUE, url |-> [scheme |-> href.scheme, host |-> "",
                                    path |-> href.path]]
      [] OTHER -> [ok |-> FALSE, url |-> base]

\* str::trim().is_empty()
TrimIsEmpty(text) == \A i \in DOMAIN text : text[i] = " "

\* an extractor that takes every URL that joins
any_scheme(url) == TRUE

\* matches!(link_url.scheme(), "http" | "https")
http_or_https(url) == url.scheme = "http" \/ url.scheme = "https"

NoAnchorText == [set |-> FALSE, text |-> <<>>]

\* extract_links_optimized, the loop over the anchors: the links pushed and
\* anchor_map after it
RECURSIVE extract_links(_, _, _)
extract_links(anchors, base, out) ==
    IF anchors = <<>> THEN out
    ELSE LET a == Head(anchors)
             j == join(base, a.href)
         IN  extract_links(Tail(anchors), base,
                 IF j.ok /\ http_or_https(j.url)
                 THEN [links |-> Append(out.links, j.url),
                       anchor_map |->
                           IF TrimIsEmpty(a.text) THEN out.anchor_map
                           ELSE [u \in DOMAIN out.anchor_map \cup {j.url} |->
                                    IF u = j.url THEN [set |-> TRUE, text |-> a.text]
                                    ELSE out.anchor_map[u]]]
                 ELSE out)

\* extract_urls of async_advanced, on the anchors of the page
RECURSIVE extract_hrefs(_, _, _, _)
extract_hrefs(anchors, base, excluded, urls) ==
    IF anchors = <<>> THEN urls
    ELSE LET j == join(base, Head(anchors).href)
         IN  extract_hrefs(Tail(anchors), base, excluded,
                 IF /\ j.ok
                    /\ http_or_https(j.url)
                    /\ HasDomain(j.url)
                    /\ domain(j.url) \notin excluded
                 THEN Append(urls, j.url)
                 ELSE urls)

extractFrame == <<prog, stats, dlVars, jVars, crVars>>

NoLinks == [links |-> <<>>, anchor_map |-> <<>>]

\* extract_links_optimized runs on the page
ExtractLinksOptimized ==
    /\ prog = "extract"
    /\ fcall.pc = "input"
    /\ fcall.extractor = "pdf_downloader"
    /\ fcall' = [fcall EXCEPT !.pc = "returned",
                              !.out = extract_links(fcall.page, fcall.base_url, NoLinks)]
    /\ UNCHANGED extractFrame

\* extract_urls runs on the page
ExtractUrls ==
    /\ prog = "extract"
    /\ fcall.pc = "input"
    /\ fcall.extractor = "async_advanced"
    /\ fcall' = [fcall EXCEPT
           !.pc = "returned",
           !.out = [links |-> extract_hrefs(fcall.page, fcall.base_url, fcall.excluded, <<>>),
                    anchor_map |-> <<>>]]
    /\ UNCHANGED extractFrame

Pages == UNION {[1..n -> Anchors] : n \in 0..MaxAnchors}

InitExtract ==
    /\ prog = "extract"
    /\ stats = <<>>
    /\ IdleDownload
    /\ IdleJournal
    /\ IdleCrawl
    /\ fcall \in [pc : {"input"}, extractor : {"pdf_downloader", "async_advanced"},
                  page : Pages, base_url : ExtractBases,
                  excluded : {{}, {"example.com"}}, out : {NoLinks}]

NextExtract == ExtractLinksOptimized \/ ExtractUrls

SpecExtract == InitExtract /\ [][NextExtract]_vars

\* the anchors of the page whose href gives an http or https URL
WebAnchors ==
    {i \in DOMAIN fcall.page :
        \/ fcall.page[i].href.kind \in {"root", "rel"}
        \/ /\ fcall.page[i].href.kind = "abs"
           /\ fcall.page[i].href.scheme \in {"http", "https"}}

\* the URL an anchor of WebAnchors stands for
Resolved(i) ==
    LET h == fcall.page[i].href
    IN  CASE h.kind = "abs" -> [scheme |-> h.scheme, host |-> h.host, path |-> h.path]
          [] h.kind = "root" -> [scheme |-> fcall.base_url.scheme,
                                 host |-> fcall.base_url.host, path |-> h.path]
          [] OTHER -> [scheme |-> fcall.base_url.scheme, host |-> fcall.base_url.host,
                       path |-> DirOf(fcall.base_url.path) \o h.path]

LinkSet == {fcall.out.links[k] : k \in DOMAIN fcall.out.links}

\* C31: every URL an extractor returns is absolute with scheme http or https
\* and is the href of an anchor of the page joined to the base URL; hrefs
\* that do not parse and hrefs of another scheme give no URL;
\* extract_links_optimized returns every http or https href, the relative
\* ones resolved against the base, and records an anchor text only for a
\* returned URL and only when the text is not blank.
C31_ExtractedLinks ==
    (prog = "extract" /\ fcall.pc = "returned") =>
        /\ \A u \in LinkSet :
              /\ u.scheme \in {"http", "https"}
              /\ u.host # ""
              /\ \E i \in WebAnchors : Resolved(i) = u
        /\ Len(fcall.out.links) <= Cardinality(WebAnchors)
        /\ fcall.extractor = "pdf_downloader" =>
              /\ Len(fcall.out.links) = Cardinality(WebAnchors)
              /\ \A i \in WebAnchors : Resolved(i) \in LinkSet
              /\ \A u \in DOMAIN fcall.out.anchor_map :
                    /\ u \in LinkSet
                    /\ fcall.out.anchor_map[u].set
                    /\ ~TrimIsEmpty(fcall.out.anchor_map[u].text)
                    /\ \E i \in WebAnchors :
                          /\ Resolved(i) = u
                          /\ fcall.page[i].text = fcall.out.anchor_map[u].text
              /\ \A i \in WebAnchors :
                    (\A k \in WebAnchors : Resolved(k) = Resolved(i)
                                              => TrimIsEmpty(fcall.page[k].text))
                        => Resolved(i) \notin DOMAIN fcall.out.anchor_map

\* the page of the unit test, without its first link: /page2 and a mailto
\* link on https://example.com/ give https://example.com/page2 alone
C31_Witness ==
    /\ prog = "extract"
    /\ fcall.pc = "returned"
    /\ fcall.extractor = "pdf_downloader"
    /\ fcall.base_url = [scheme |-> "https", host |-> "example.com", path |-> <<"/">>]
    /\ Len(fcall.page) = 2
    /\ fcall.page[1].href.kind = "root" /\ fcall.page[1].text = <<"Link">>
    /\ fcall.page[2].href.scheme = "mailto" /\ fcall.page[2].text = <<"Link">>
    /\ fcall.out.links = <<[scheme |-> "https", host |-> "example.com",
                            path |-> <<"/", "page2">>]>>
    /\ DOMAIN fcall.out.anchor_map = LinkSet

\* extract_urls on the same kind of page: the absolute and the relative link
\* are returned, in order
C31_TestUrlExtraction ==
    /\ prog = "extract"
    /\ fcall.pc = "returned"
    /\ fcall.extractor = "async_advanced"
    /\ fcall.excluded = {}
    /\ fcall.base_url = [scheme |-> "https", host |-> "example.com", path |-> <<"/">>]
    /\ fcall.out.links = << [scheme |-> "https", host |-> "example.com",
                             path |-> <<"/", "page1">>],
                            [scheme |-> "https", host |-> "example.com",
                             path |-> <<"/", "page2">>] >>

\* a relative href on a page in a directory
C31_RelativeResolved ==
    /\ prog = "extract"
    /\ fcall.pc = "returned"
    /\ [scheme |-> "http", host |-> "external.com",
        path |-> <<"/", "dir", "/", "page3">>] \in LinkSet

----------------------------------------------------------------------------
\* a worker of async_advanced that has popped a url queued again after a
\* failed fetch goes on to fetch it
RequeuedIsFetched ==
    \A w \in DOMAIN tasks :
        (/\ w \in DOMAIN tasks'
         /\ tasks[w].pc = "check"
         /\ tasks[w].url \in log.requeued
         /\ tasks'[w] # tasks[w])
            => tasks'[w].pc = "mark"

\* C32: in async_advanced a url whose fetch failed and that was queued again
\* is fetched again by the worker that pops it.
C32_RetryFetchesAgain == [][(prog = "adv") => RequeuedIsFetched]_vars

\* a url queued again after a failed fetch has been popped and is checked
\* against crawled_urls, where it is
C32_RequeuedPopped ==
    /\ prog = "adv"
    /\ \E w \in DOMAIN tasks :
          /\ tasks[w].pc = "check"
          /\ tasks[w].url \in log.requeued
          /\ as_str(tasks[w].url) \in visited_urls

\* C33: in async_advanced no url is being fetched by two workers.
C33_NoTwoFetchesOfOneUrl ==
    prog = "adv" =>
        \A w1, w2 \in DOMAIN tasks :
            (w1 # w2 /\ tasks[w1].pc = "fetch" /\ tasks[w2].pc = "fetch")
                => tasks[w1].url # tasks[w2].url

\* the check and the insert are one step apart: two workers hold the same
\* url, both past the check
C33_BothPastCheck ==
    /\ prog = "adv"
    /\ \E w1, w2 \in DOMAIN tasks :
          /\ w1 # w2
          /\ tasks[w1].pc = "mark" /\ tasks[w2].pc = "mark"
          /\ tasks[w1].url = tasks[w2].url

\* the workers of async_advanced and main are scheduled fairly: a step that
\* stays possible is taken
FairAdv ==
    /\ WF_vars(AdvSpawn)
    /\ WF_vars(AdvAdjust)
    /\ \A w \in 1..MAX_WORKERS :
          /\ WF_vars(w \in DOMAIN tasks /\ AdvPop(w))
          /\ WF_vars(w \in DOMAIN tasks /\ AdvCheck(w))
          /\ WF_vars(w \in DOMAIN tasks /\ AdvMark(w))
          /\ WF_vars(w \in DOMAIN tasks /\ (AdvFetchOk(w) \/ AdvFetchErr(w)))
          /\ WF_vars(w \in DOMAIN tasks /\ AdvDecErrors(w))

SpecAdvFair == SpecAdv /\ FairAdv

\* no worker holds a url
NoWorkerBusy == \A w \in DOMAIN tasks : tasks[w].pc \in {"loop", "finished"}

\* C34: once the queue of async_advanced is empty, a page has been crawled
\* and no worker holds a url, crawl() returns.
C34_CrawlEndsWhenOutOfWork ==
    (prog = "adv" /\ crawl_queue = <<>> /\ stats.pages_crawled > 0 /\ NoWorkerBusy)
        ~> (main.pc = "done")

\* the crawl does end when the page limit is reached
C34_EndsOnPageLimit ==
    (prog = "adv" /\ stats.pages_crawled >= cfg.max_pages) ~> (main.pc = "done")

\* out of work below the page limit: the workers of the batch are in their
\* loop and main waits for them
C34_WorkersSpin ==
    /\ prog = "adv"
    /\ crawl_queue = <<>>
    /\ stats.pages_crawled > 0
    /\ stats.pages_crawled < cfg.max_pages
    /\ main.pc = "join"
    /\ \A w \in DOMAIN tasks : tasks[w].pc = "loop"

----------------------------------------------------------------------------
\* the document at the output path is replaced by one that counts at least
\* as many pages
PagesKept ==
    (jdisk.out.exists /\ jdisk'.out.exists) =>
        jdisk'.out.doc.metadata.total_pages_crawled
            >= jdisk.out.doc.metadata.total_pages_crawled

\* C35: total_pages_crawled of the report never decreases from one document
\* at the output path to the next.
C35_PagesNeverDecrease == [][(prog = "report") => PagesKept]_vars

\* a report that counts one page, and a rejected candidate of the next page
\* on its way to the writer
C35_ResetOnItsWay ==
    /\ prog = "report"
    /\ jdisk.out.exists
    /\ jdisk.out.doc.metadata.total_pages_crawled = 1
    /\ main.pages_crawled = 2
    /\ pdf_queue # <<>>
    /\ Head(pdf_queue) = UpdateMetadataMsg(0, "in_progress")

----------------------------------------------------------------------------
\* C40: when crawl() returned Ok and writer_task has not failed, the
\* document main reads, and the document at the output path when the process
\* has exited, has status completed and the final page count.
C40_CompletedReportAtExit ==
    prog = "report" =>
        /\ (main.read.done /\ main.read.writer_alive) =>
              /\ main.read.ok
              /\ main.read.doc.metadata.status = "completed"
              /\ main.read.doc.metadata.total_pages_crawled = main.pages_crawled
        /\ (main.read.done /\ writer.pc = "stopped") =>
              /\ jdisk.out.exists
              /\ jdisk.out.doc.metadata.status = "completed"
              /\ jdisk.out.doc.metadata.total_pages_crawled = main.pages_crawled

\* main has read a report that says in_progress while the final message
\* waits in the channel
C40_ReadBeforeWritten ==
    /\ prog = "report"
    /\ main.read.done /\ main.read.ok /\ main.read.writer_alive
    /\ main.read.doc.metadata.status = "in_progress"
    /\ pdf_queue # <<>>
    /\ Last(pdf_queue).status = "completed"

\* the process has exited and the report says in_progress
C40_ExitBeforeWritten ==
    /\ prog = "report"
    /\ main.read.done
    /\ writer.pc = "stopped"
    /\ jdisk.out.exists
    /\ jdisk.out.doc.metadata.status = "in_progress"

\* a run in which the writer was fast enough: the completed report was read
\* and is left on disk
C40_CompletedRead ==
    /\ prog = "report"
    /\ main.read.done /\ main.read.ok
    /\ main.read.doc.metadata.status = "completed"
    /\ writer.pc = "stopped"
    /\ jdisk.out.doc.metadata.status = "completed"

----------------------------------------------------------------------------
(* pdf_downloader: PackedCounters on its own.  counters is the packed word  *)
(* as get_counts returns it; fcall holds the operations applied so far.     *)

MaxOps == 3

\* the values a field starts from: small ones and the largest of 16 bits
FieldStarts == {0, 1, FieldMod - 1}

cntFrame == <<prog, stats, jVars, crVars, files, pdf_queue, pdf_closed, dl, shutdown_signal,
              resume, run, seed_list, committed>>

\* PackedCounters::inc_downloaded
CntIncDownloaded ==
    /\ prog = "counters"
    /\ Len(fcall.ops) < MaxOps
    /\ counters' = inc_downloaded(counters)
    /\ fcall' = [fcall EXCEPT !.ops = Append(@, "inc_downloaded")]
    /\ UNCHANGED cntFrame

\* PackedCounters::inc_failed
CntIncFailed ==
    /\ prog = "counters"
    /\ Len(fcall.ops) < MaxOps
    /\ counters' = inc_failed(counters)
    /\ fcall' = [fcall EXCEPT !.ops = Append(@, "inc_failed")]
    /\ UNCHANGED cntFrame

\* PackedCounters::inc_queued
CntIncQueued ==
    /\ prog = "counters"
    /\ Len(fcall.ops) < MaxOps
    /\ counters' = inc_queued(counters)
    /\ fcall' = [fcall EXCEPT !.ops = Append(@, "inc_queued")]
    /\ UNCHANGED cntFrame

\* PackedCounters::dec_queued
CntDecQueued ==
    /\ prog = "counters"
    /\ Len(fcall.ops) < MaxOps
    /\ counters' = dec_queued(counters)
    /\ fcall' = [fcall EXCEPT !.ops = Append(@, "dec_queued")]
    /\ UNCHANGED cntFrame

\* PackedCounters::inc_cache_hits
CntIncCacheHits ==
    /\ prog = "counters"
    /\ Len(fcall.ops) < MaxOps
    /\ counters' = inc_cache_hits(counters)
    /\ fcall' = [fcall EXCEPT !.ops = Append(@, "inc_cache_hits")]
    /\ UNCHANGED cntFrame

InitCounters ==
    /\ prog = "counters"
    /\ stats = <<>>
    /\ IdleJournal
    /\ IdleCrawl
    /\ files = <<>> /\ pdf_queue = <<>> /\ pdf_closed = FALSE /\ dl = <<>>
    /\ shutdown_signal = FALSE /\ resume = FALSE /\ run = 0 /\ seed_list = <<>>
    /\ committed = {}
    /\ counters \in [1..4 -> FieldStarts]
    /\ fcall = [ops |-> <<>>]

NextCounters ==
    \/ CntIncDownloaded
    \/ CntIncFailed
    \/ CntIncQueued
    \/ CntDecQueued
    \/ CntIncCacheHits

SpecCounters == InitCounters /\ [][NextCounters]_vars

\* the field an operation is about
FieldOf(op) ==
    CASE op = "inc_downloaded" -> 1
      [] op = "inc_failed" -> 2
      [] op \in {"inc_queued", "dec_queued"} -> 3
      [] OTHER -> 4

\* the operation just applied has left the other three fields as they were
OthersUntouched ==
    Len(fcall'.ops) = Len(fcall.ops) + 1 =>
        \A i \in 1..4 : i # FieldOf(Last(fcall'.ops)) => counters'[i] = counters[i]

\* C37: an operation on one of the four packed counters never changes the
\* value get_counts returns for another.
C37_CountersIndependent == [][(prog = "counters") => OthersUntouched]_vars

\* from the word of a fresh PackedCounters, dec_queued has made cache_hits
\* 65535
C37_BorrowFromCacheHits ==
    /\ prog = "counters"
    /\ fcall.ops = <<"dec_queued">>
    /\ counters = <<0, 0, FieldMod - 1, FieldMod - 1>>

\* inc_downloaded at 65535 has carried into failed
C37_CarryIntoFailed ==
    /\ prog = "counters"
    /\ fcall.ops = <<"inc_downloaded">>
    /\ counters[1] = 0
    /\ counters[2] = 1

----------------------------------------------------------------------------
\* the crawl tasks of pdf_downloader whose future has not ended
Running(ts) == {s \in DOMAIN ts : ts[s].pc \notin {"free", "finished"}}

\* C38: in the recursive crawl loop of pdf_downloader at most
\* concurrent_crawlers tasks are in the JoinSet, the permits in use are as
\* many as the tasks whose future has not ended and never more than
\* global_socket_limit, and once the loop and the final joins are over every
\* permit is free.
C38_TasksAndPermitsBounded ==
    prog = "crawl" =>
        /\ JoinSetLen(tasks) <= cfg.concurrent_crawlers
        /\ cfg.global_socket_limit - PermitsFree(tasks) = Cardinality(Running(tasks))
        /\ PermitsFree(tasks) >= 0
        /\ Cardinality(Running(tasks)) <= Min(cfg.concurrent_crawlers, cfg.global_socket_limit)
        /\ main.pc = "done" => PermitsFree(tasks) = cfg.global_socket_limit

\* two crawlers and one permit: the permit is taken, a task waits in the
\* queue, and a slot of the JoinSet is free
C38_Witness ==
    /\ prog = "crawl"
    /\ cfg.concurrent_crawlers = 2
    /\ cfg.global_socket_limit = 1
    /\ PermitsFree(tasks) = 0
    /\ JoinSetLen(tasks) = 1
    /\ crawl_queue # <<>>
    /\ main.pc = "select"

\* the loop is over after several dispatches and all permits are free
C38_AllFreeAfterLoop ==
    /\ prog = "crawl"
    /\ main.pc = "done"
    /\ Cardinality(log.first) >= 2
    /\ PermitsFree(tasks) = cfg.global_socket_limit

----------------------------------------------------------------------------
(* pdf_downloader: the pages the recursive crawl reaches under max_depth    *)

\* the site whose page s is two links from the seed through r and three
\* through q and p, with a depth limit that lets two links through, two
\* crawlers and a queue that holds every page
DepthConfigs == {Config(3, 2, 2, 4, 0, "short")}

InitDepth == InitCrawlOn(Configs \cup DepthConfigs)

SpecDepth == InitDepth /\ [][NextCrawl]_vars

\* the longest link distance on the sites served
SiteDepth == 4

\* the navigable pages of the seed's host at most d links from the seed
RECURSIVE Within(_, _)
Within(g, d) ==
    IF d <= 0 THEN {Seed}
    ELSE LET prev == Within(g, d - 1)
             next == UNION {{Links(g, u)[i] : i \in DOMAIN Links(g, u)} : u \in prev}
         IN  prev \cup {v \in next : SameHost(v, Seed.host) /\ ContentKind(g, v) = "page"}

\* the largest depth a task is sent with: task.depth + 1 < max
DeepestAllowed(max_depth) == IF max_depth = None THEN SiteDepth ELSE max_depth - 1

\* the crawl has returned by itself with nothing lost: every task sent was
\* dispatched and its page fetched, no retry is waiting
EndedClean ==
    /\ main.pc = "done"
    /\ ~shutdown_signal
    /\ crawl_queue = <<>>
    /\ retry_tasks = <<>>
    /\ DOMAIN log.attempts \subseteq log.fetch_ok
    /\ \A t \in log.enq : hash_url(t.url) \in log.fetch_ok

\* C36: the recursive crawl is complete within the depth limit: when it ends
\* with no fetch error and no full queue, every navigable page of the seed's
\* host whose shortest link distance from the seed is allowed by max_depth
\* was fetched, also a page first discovered along a path too deep to send.
C36_CompleteWithinDepth ==
    (prog = "crawl" /\ EndedClean) =>
        \A u \in Within(cfg.graph, DeepestAllowed(cfg.max_depth)) :
            hash_url(u) \in log.fetch_ok

\* the crawl over the short site has ended clean: s was first inserted into
\* visited_urls by the task of p, at depth 3, and the task of r found it
\* there; s is visited and was never sent
C36_ShadowedByDeepPath ==
    /\ prog = "crawl"
    /\ cfg.graph = "short"
    /\ EndedClean
    /\ hash_url(PageS) \in visited_urls
    /\ hash_url(PageS) \in log.refused
    /\ hash_url(PageS) \notin log.fetch_ok
    /\ {hash_url(PageP), hash_url(PageR)} \subseteq log.fetch_ok

\* the same crawl when the task of r filters its links first: s is fetched
C36_ShortPathFirst ==
    /\ prog = "crawl"
    /\ cfg.graph = "short"
    /\ EndedClean
    /\ hash_url(PageS) \in log.fetch_ok

----------------------------------------------------------------------------
(* brute_force_domain_enum/snagrod/snagrod_superfast.rs: main.  fcall holds *)
(* the loop's position and url, the two sets, the semaphore's permits, the  *)
(* counter active_tasks, the spawned tasks, the channel and the file.       *)

\* let max_concurrency: usize = 5
max_concurrency == 5

\* the sites: seven pages in a tree, and two pages that link to each other
SnagSites == {"tree", "pair"}

\* what get_links returns for url, in document order
SnagLinks(site, url) ==
    IF site = "tree"
    THEN CASE url = "u1" -> <<"u2", "u3">>
           [] url = "u2" -> <<"u4", "u5">>
           [] url = "u3" -> <<"u6", "u7">>
           [] OTHER -> <<>>
    ELSE CASE url = "u1" -> <<"u2", "u1">>
           [] url = "u2" -> <<"u1">>
           [] OTHER -> <<>>

\* the urls whose request may fail
SnagFlaky == {"u3"}

SeqRange(q) == {q[i] : i \in DOMAIN q}

snagFrame == <<cntFrame, counters>>

\* OwnedSemaphorePermit::forget: the permit is dropped without being given
\* back to the semaphore
forget(permits) == permits

\* Some(url): the url leaves urls_to_crawl; continue when it was crawled,
\* otherwise acquire_owned() is awaited with crawled_urls locked
SnagNext ==
    /\ prog = "snag"
    /\ fcall.pc = "loop"
    /\ \E url \in fcall.urls_to_crawl :
          fcall' = [fcall EXCEPT !.urls_to_crawl = @ \ {url},
                                 !.pc = IF url \in fcall.crawled_urls THEN "loop" ELSE "acquire",
                                 !.url = IF url \in fcall.crawled_urls THEN "" ELSE url]
    /\ UNCHANGED snagFrame

\* acquire_owned() returns a permit: the url is marked, active_tasks goes up
\* and the task is spawned with the permit
SnagSpawn ==
    /\ prog = "snag"
    /\ fcall.pc = "acquire"
    /\ fcall.permits > 0
    /\ fcall' = [fcall EXCEPT !.permits = @ - 1,
                              !.crawled_urls = @ \cup {fcall.url},
                              !.active_tasks = @ + 1,
                              !.tasks = @ \cup {fcall.url},
                              !.url = "",
                              !.pc = "loop"]
    /\ UNCHANGED snagFrame

\* the task of url: permit.forget(), crawl(&url) returns Some(links), every
\* link is sent to the writer and inserted into urls_to_crawl; the deferred
\* fetch_sub runs when the future ends
SnagTaskOk ==
    /\ prog = "snag"
    /\ \E url \in fcall.tasks :
          LET links == SnagLinks(fcall.site, url)
          IN  fcall' = [fcall EXCEPT !.permits = forget(@),
                                     !.chan = @ \o links,
                                     !.urls_to_crawl = @ \cup SeqRange(links),
                                     !.tasks = @ \ {url},
                                     !.active_tasks = @ - 1]
    /\ UNCHANGED snagFrame

\* the task of url: permit.forget(), crawl(&url) returns None
SnagTaskNone ==
    /\ prog = "snag"
    /\ \E url \in fcall.tasks \cap SnagFlaky :
          fcall' = [fcall EXCEPT !.permits = forget(@),
                                 !.tasks = @ \ {url},
                                 !.active_tasks = @ - 1]
    /\ UNCHANGED snagFrame

\* iter().next() finds urls_to_crawl empty: url_option is None
SnagNone ==
    /\ prog = "snag"
    /\ fcall.pc = "loop"
    /\ fcall.urls_to_crawl = {}
    /\ fcall' = [fcall EXCEPT !.pc = "none"]
    /\ UNCHANGED snagFrame

\* None with active_tasks == 0: break, tx is dropped
SnagBreak ==
    /\ prog = "snag"
    /\ fcall.pc = "none"
    /\ fcall.active_tasks = 0
    /\ fcall' = [fcall EXCEPT !.pc = "join"]
    /\ UNCHANGED snagFrame

\* None with tasks active: sleep(12000 ms), then the next iteration
SnagSleep ==
    /\ prog = "snag"
    /\ fcall.pc = "none"
    /\ fcall.active_tasks # 0
    /\ fcall' = [fcall EXCEPT !.pc = "loop"]
    /\ UNCHANGED snagFrame

\* the writer task: rx.recv() yields a url, which is written as a line
SnagWrite ==
    /\ prog = "snag"
    /\ fcall.chan # <<>>
    /\ fcall' = [fcall EXCEPT !.chan = Tail(@), !.written = Append(@, Head(fcall.chan))]
    /\ UNCHANGED snagFrame

\* the channel is closed and empty: the writer task ends, writer_handle is
\* joined and main returns
SnagJoin ==
    /\ prog = "snag"
    /\ fcall.pc = "join"
    /\ fcall.chan = <<>>
    /\ fcall' = [fcall EXCEPT !.pc = "done"]
    /\ UNCHANGED snagFrame

InitSnag ==
    /\ prog = "snag"
    /\ stats = <<>>
    /\ IdleJournal
    /\ IdleCrawl
    /\ files = <<>> /\ pdf_queue = <<>> /\ pdf_closed = FALSE /\ dl = <<>>
    /\ shutdown_signal = FALSE /\ resume = FALSE /\ run = 0 /\ seed_list = <<>>
    /\ committed = {}
    /\ counters = <<0, 0, 0, 0>>
    /\ \E site \in SnagSites :
          fcall = [site |-> site, pc |-> "loop", url |-> "", urls_to_crawl |-> {"u1"},
                   crawled_urls |-> {}, permits |-> max_concurrency, active_tasks |-> 0,
                   tasks |-> {}, chan |-> <<>>, written |-> <<>>]

NextSnag ==
    \/ SnagNext
    \/ SnagSpawn
    \/ SnagTaskOk
    \/ SnagTaskNone
    \/ SnagNone
    \/ SnagBreak
    \/ SnagSleep
    \/ SnagWrite
    \/ SnagJoin

SpecSnag == InitSnag /\ [][NextSnag]_vars

\* C39: the semaphore only limits how many crawls run at once: the permits
\* not available are those of the tasks still active, so that a permit is
\* available again after its task ended, and the loop waiting for a permit
\* with no task active gets one.
C39_SemaphoreOnlyLimits ==
    prog = "snag" =>
        /\ fcall.permits = max_concurrency - fcall.active_tasks
        /\ (fcall.pc = "acquire" /\ fcall.active_tasks = 0) => fcall.permits > 0

\* five crawls ended, a sixth url was taken and more are pending: no permit
\* is left, no task is active, and the loop waits in acquire_owned()
C39_StuckAtAcquire ==
    /\ prog = "snag"
    /\ fcall.pc = "acquire"
    /\ fcall.permits = 0
    /\ fcall.active_tasks = 0
    /\ Cardinality(fcall.crawled_urls) = max_concurrency
    /\ fcall.urls_to_crawl # {}

\* on the site of two pages main returns, with two permits gone for good
C39_SmallSiteEnds ==
    /\ prog = "snag"
    /\ fcall.pc = "done"
    /\ fcall.crawled_urls = {"u1", "u2"}
    /\ fcall.permits = max_concurrency - 2

\* no run crawls more than max_concurrency urls
C39_AtMostFiveCrawled ==
    prog = "snag" => Cardinality(fcall.crawled_urls) <= max_concurrency

====
